---- MODULE Spec2Model ----
(***************************************************************************)
(* Model of synclaude's configuration store (ConfigManager), model cache   *)
(* (ModelCache) and model manager (ModelManager).                          *)
(*                                                                         *)
(* JavaScript values are tagged records, so that a value of one type is    *)
(* never equal to a value of another and a parser has something to reject. *)
(* A file's text is either a JSON document (kept as the value it parses    *)
(* to) or text that JSON.parse rejects.                                    *)
(***************************************************************************)
EXTENDS Integers, Sequences, FiniteSets, TLC

\* ------------------------------------------------------------------------
\* Bounds of the model
\* ------------------------------------------------------------------------
MaxTime == 1
MaxRaw == 2
MaxIdLen == 5
MaxModels == 2
MaxQuery == 2

\* ------------------------------------------------------------------------
\* JavaScript / JSON values
\* ------------------------------------------------------------------------
Str(s) == [t |-> "string", s |-> s]
Num(n) == [t |-> "number", n |-> n]
\* the number n + 1/2, which is not an integer
Frac(n) == [t |-> "number", n |-> n, half |-> TRUE]
Bool(b) == [t |-> "boolean", b |-> b]
Null == [t |-> "null"]
Undefined == [t |-> "undefined"]
Obj(f) == [t |-> "object", o |-> f]
Arr(a) == [t |-> "array", a |-> a]

\* obj.key : undefined when the key is absent or the value has no properties
Prop(v, key) ==
  IF v.t = "object" /\ key \in DOMAIN v.o THEN v.o[key] ELSE Undefined

\* reading a property of null or undefined throws a TypeError
PropThrows(v) == v.t \in {"null", "undefined"}

\* Number.isInteger(v) for a number v
IsInteger(v) == "half" \notin DOMAIN v

\* JavaScript truthiness, as used by || and Boolean()
Truthy(v) ==
  CASE v.t = "string" -> v.s # ""
    [] v.t = "number" -> v.n # 0 \/ ~IsInteger(v)
    [] v.t = "boolean" -> v.b
    [] v.t \in {"null", "undefined"} -> FALSE
    [] OTHER -> TRUE

\* a || b
Or(a, b) == IF Truthy(a) THEN a ELSE b

\* zod's .default(d): d replaces undefined only
Default(v, d) == IF v.t = "undefined" THEN d ELSE v

\* Faulty variant of Jsonify: a serializer that also leaves out falsy
\* properties
JsonifyDropsFalsy(v) ==
  IF v.t = "object"
    THEN Obj([k \in {x \in DOMAIN v.o : Truthy(v.o[x])} |-> v.o[k]])
    ELSE v

\* JSON.stringify writes no property whose value is undefined, and null for
\* an undefined array element
RECURSIVE Jsonify(_)
Jsonify(v) ==
  CASE v.t = "object" ->
         Obj([k \in {x \in DOMAIN v.o : v.o[x].t # "undefined"} |-> Jsonify(v.o[k])])
    [] v.t = "array" ->
         Arr([i \in 1..Len(v.a) |->
                IF v.a[i].t = "undefined" THEN Null ELSE Jsonify(v.a[i])])
    [] OTHER -> v

\* File texts: a JSON document, or text that is not JSON.  hasFlagText says
\* whether the literal "firstRunCompleted":true occurs in the text.
JsonText(v) == [kind |-> "json", value |-> v]
GarbageText(flag) == [kind |-> "garbage", hasFlagText |-> flag]

\* JSON.stringify(v, null, 2), up to white space
JSONStringify(v) == JsonText(Jsonify(v))

\* JSON.parse
JSONParseThrows(text) == text.kind # "json"
JSONParse(text) == text.value

\* ------------------------------------------------------------------------
\* Strings whose characters matter: sequences of one-character strings
\* ------------------------------------------------------------------------
\* s.includes(c)
Includes(s, c) == \E i \in 1..Len(s) : s[i] = c

\* s.indexOf(c), counted from 1, for a string that includes c
IndexOf(s, c) == CHOOSE i \in 1..Len(s) : s[i] = c /\ \A j \in 1..(i - 1) : s[j] # c

\* s.split(c): every piece between two occurrences of c
RECURSIVE Split(_, _)
Split(s, c) ==
  IF ~Includes(s, c) THEN <<s>>
  ELSE <<SubSeq(s, 1, IndexOf(s, c) - 1)>>
         \o Split(SubSeq(s, IndexOf(s, c) + 1, Len(s)), c)

\* s.split(c, limit): the first limit pieces of s.split(c); the rest of the
\* string is dropped
SplitLimit(s, c, limit) ==
  LET pieces == Split(s, c)
  IN SubSeq(pieces, 1, IF Len(pieces) < limit THEN Len(pieces) ELSE limit)

\* c.toLowerCase() of one character, and s.toLowerCase()
LowerChar(c) == IF c = "B" THEN "b" ELSE c
toLowerCase(s) == [i \in 1..Len(s) |-> LowerChar(s[i])]

\* s.includes(q) for a string q
IncludesText(s, q) ==
  \E i \in 0..(Len(s) - Len(q)) : SubSeq(s, i + 1, i + Len(q)) = q

\* parts.join(' ')
RECURSIVE Join(_)
Join(parts) ==
  IF Len(parts) = 0 THEN <<>>
  ELSE IF Len(parts) = 1 THEN parts[1]
  ELSE parts[1] \o <<" ">> \o Join(Tail(parts))

\* -1, 0 or 1 as the sequence of numbers x comes before, with or after y
LexCompare(x, y) ==
  LET n == IF Len(x) < Len(y) THEN Len(x) ELSE Len(y)
      differ == {i \in 1..n : x[i] # y[i]}
  IN IF differ = {}
       THEN IF Len(x) < Len(y) THEN -1 ELSE IF Len(x) > Len(y) THEN 1 ELSE 0
       ELSE LET i == CHOOSE i \in differ : \A j \in differ : i <= j
            IN IF x[i] < y[i] THEN -1 ELSE 1

\* Collation of the characters: white space, then punctuation, then letters
\* in alphabetical order; a lower-case letter and its upper-case letter
\* differ only at the last level, lower case first
PrimaryWeight(c) ==
  IF c = " " THEN 1 ELSE IF c = ":" THEN 2 ELSE IF c = "a" THEN 3 ELSE 4
TertiaryWeight(c) == IF c = "B" THEN 1 ELSE 0

\* a.localeCompare(b): the letters decide first, the case of the letters only
\* between strings with the same letters
localeCompare(a, b) ==
  LET primary == LexCompare([i \in 1..Len(a) |-> PrimaryWeight(a[i])],
                            [i \in 1..Len(b) |-> PrimaryWeight(b[i])])
  IN IF primary # 0 THEN primary
     ELSE LexCompare([i \in 1..Len(a) |-> TertiaryWeight(a[i])],
                     [i \in 1..Len(b) |-> TertiaryWeight(b[i])])

\* a || b for strings: the empty string is falsy
TextOr(a, b) == IF a # <<>> THEN a ELSE b

\* the string 'unknown'
Unknown == <<"u", "n", "k", "n", "o", "w", "n">>

\* ModelInfoImpl.getProvider() of an entry with this id
getProvider(id) ==
  IF Includes(id, ":") THEN TextOr(SplitLimit(id, ":", 1)[1], Unknown) ELSE Unknown

\* ModelInfoImpl.getModelName() of an entry with this id
getModelName(id) ==
  IF Includes(id, ":") THEN TextOr(SplitLimit(id, ":", 2)[2], id) ELSE id

\* ------------------------------------------------------------------------
\* Model entries (ModelInfoSchema, ModelInfoImpl)
\* ------------------------------------------------------------------------
OptionalOf(v, type) == v.t = "undefined" \/ v.t = type

ModelInfoSchemaSuccess(data) ==
  /\ data.t = "object"
  /\ Prop(data, "id").t = "string"
  /\ OptionalOf(Prop(data, "object"), "string")
  /\ OptionalOf(Prop(data, "created"), "number")
  /\ OptionalOf(Prop(data, "owned_by"), "string")

\* Faulty variant of ModelInfoSchemaData: object is 'model' whatever the
\* data says
ModelInfoSchemaDataFixedObject(data) ==
  [id |-> Prop(data, "id"),
   object |-> Str("model"),
   created |-> Prop(data, "created"),
   owned_by |-> Prop(data, "owned_by")]

ModelInfoSchemaData(data) ==
  [id |-> Prop(data, "id"),
   object |-> Default(Prop(data, "object"), Str("model")),
   created |-> Prop(data, "created"),
   owned_by |-> Prop(data, "owned_by")]

\* new ModelInfoImpl(data): throws when the schema rejects data
ModelInfoImplThrows(data) == ~ModelInfoSchemaSuccess(data)
ModelInfoImpl(data) ==
  LET modelData == ModelInfoSchemaData(data)
  IN [id |-> modelData.id, object |-> modelData.object,
      created |-> modelData.created, owned_by |-> modelData.owned_by]

\* Faulty variant of toJSON: owned_by is left out
toJSONWithoutOwner(model) ==
  Obj([id |-> model.id, object |-> model.object, created |-> model.created])

toJSON(model) ==
  Obj([id |-> model.id, object |-> model.object,
       created |-> model.created, owned_by |-> model.owned_by])

\* ------------------------------------------------------------------------
\* State
\* ------------------------------------------------------------------------
VARIABLES
  cacheFile,        \* models_cache.json: [exists, text, mtime]
  cacheDir,         \* whether the directory of models_cache.json exists
  cacheSaved,       \* what the last successful save stored, while the file holds it
  now,              \* Date.now(), in milliseconds
  apiKey,           \* ModelManager.apiKey
  cacheDurationMs,  \* ModelCache.cacheDurationMs
  corruptHit,       \* the last fetchModels(false) read a fresh cache it could not load
  last,             \* the last call made and what it did
  recording,        \* whether the full history of a call is kept (the endpoint's
                    \* response in last, the steps of a save in cfgLast)
  configFile,       \* config.json: [exists, text, mode]
  backupFile,       \* config.json.backup: [exists, text, mode]
  _config,          \* ConfigManager._config: null or the loaded AppConfig
  lastSaved,        \* what the last successful save stored, while the file holds it
  cfgLast           \* the last ConfigManager call made and what it did

cacheVars ==
  <<cacheFile, cacheDir, cacheSaved, now, apiKey, cacheDurationMs, corruptHit, last,
    recording>>
configVars == <<configFile, backupFile, _config, lastSaved, cfgLast>>
vars == <<cacheVars, configVars>>

HourMs == 60 * 60 * 1000

NoFile == [exists |-> FALSE]
File(text, mtime) == [exists |-> TRUE, text |-> text, mtime |-> mtime]

NoCall ==
  [op |-> "none", seq |-> 0, forceRefresh |-> FALSE, validBefore |-> FALSE,
   afterCorruptHit |-> FALSE, fetcherCalls |-> 0,
   response |-> [rejected |-> TRUE, status |-> 0, data |-> Undefined], threw |-> FALSE, result |-> <<>>,
   saved |-> "not called", answer |-> Undefined, io |-> "none", dirBefore |-> TRUE,
   info |-> <<>>]

\* no save has stored anything the cache file still holds
NothingSaved == [known |-> FALSE, models |-> <<>>]
Saved(models) == [known |-> TRUE, models |-> models]

\* ------------------------------------------------------------------------
\* ModelCache
\* ------------------------------------------------------------------------
\* new ModelCache(options)
ModelCacheDurationMs(cacheDurationHours) == cacheDurationHours * 60 * 60 * 1000

\* Faulty variant of isValid: an age of exactly the duration counts as valid
isValidInclusive(file, t, durationMs) ==
  IF ~file.exists THEN FALSE
  ELSE LET age == t - file.mtime IN age <= durationMs

\* isValid(): stat throws when the file is missing
isValid(file, t, durationMs) ==
  IF ~file.exists THEN FALSE
  ELSE LET age == t - file.mtime IN age < durationMs

\* the body of load()'s try block throws
loadThrows(text) ==
  \/ JSONParseThrows(text)
  \/ LET cacheData == JSONParse(text)
         modelsData == Or(Prop(cacheData, "models"), Arr(<<>>))
     IN \/ PropThrows(cacheData)
        \/ modelsData.t # "array"
        \/ \E i \in 1..Len(modelsData.a) : ModelInfoImplThrows(modelsData.a[i])

\* Faulty variant of load: the age of the file is not looked at
loadIgnoringAge(file, t, durationMs) ==
  IF ~file.exists \/ loadThrows(file.text) THEN <<>>
  ELSE LET cacheData == JSONParse(file.text)
           modelsData == Or(Prop(cacheData, "models"), Arr(<<>>))
       IN [i \in 1..Len(modelsData.a) |-> ModelInfoImpl(modelsData.a[i])]

\* load()
load(file, t, durationMs) ==
  IF ~isValid(file, t, durationMs) THEN <<>>
  ELSE IF loadThrows(file.text) THEN <<>>
  ELSE LET cacheData == JSONParse(file.text)
           modelsData == Or(Prop(cacheData, "models"), Arr(<<>>))
       IN [i \in 1..Len(modelsData.a) |-> ModelInfoImpl(modelsData.a[i])]

\* Faulty variant of saveData: count is one more than the number of entries
saveDataCountOff(models, t) ==
  LET cacheData == Obj([models |-> Arr([i \in 1..Len(models) |-> toJSON(models[i])]),
                        timestamp |-> Str(ToString(t)),
                        count |-> Num(Len(models) + 1)])
  IN JSONStringify(cacheData)

\* the file save(models) writes
saveData(models, t) ==
  LET cacheData == Obj([models |-> Arr([i \in 1..Len(models) |-> toJSON(models[i])]),
                        timestamp |-> Str(ToString(t)),
                        count |-> Num(Len(models))])
  IN JSONStringify(cacheData)

\* How save's mkdir and writeFile may end: mkdir with recursive: true
\* succeeds on a directory that exists, and writeFile is not reached when
\* mkdir fails
SaveOutcomes(dirExists) ==
  (IF dirExists THEN {} ELSE {"mkdir failed"}) \cup {"write failed", "ok"}

\* save(models): the directory afterwards
saveDir(dirExists, io) == dirExists \/ io # "mkdir failed"

\* save(models): the file afterwards; mkdir or writeFile may fail (ioOk)
save(file, models, t, ioOk) ==
  IF ioOk THEN File(saveData(models, t), t) ELSE file

\* save(models): true, or false from the catch block
saveResult(io) == io = "ok"

\* stat(cacheFile) throws: the file is missing or cannot be accessed
statThrows(file, accessOk) == ~file.exists \/ ~accessOk

\* unlink(cacheFile) throws: the file is missing or cannot be deleted
unlinkThrows(file, unlinkOk) == ~file.exists \/ ~unlinkOk

\* Faulty variant of clear: the file is left where it is
clearLeavesFile(file, unlinkOk) == file

\* clear(): the file afterwards
clear(file, unlinkOk) == IF unlinkThrows(file, unlinkOk) THEN file ELSE NoFile

\* clear(): true, or false from the catch block
clearResult(file, unlinkOk) == ~unlinkThrows(file, unlinkOk)

\* Faulty variant of getInfo: isValid is reported as true for every file
\* that can be stat-ed
getInfoAlwaysValid(file, t, durationMs, accessOk) ==
  IF statThrows(file, accessOk)
    THEN Obj([exists |-> Bool(FALSE),
              error |-> Str(IF file.exists THEN "EACCES" ELSE "ENOENT")])
    ELSE Obj([exists |-> Bool(TRUE),
              modifiedTime |-> Str(ToString(file.mtime)),
              modelCount |-> Num(Len(load(file, t, durationMs))),
              isValid |-> Bool(TRUE)])

\* getInfo(): the CacheInfo it returns (filePath and sizeBytes left out);
\* the catch block reports the message of stat's error
getInfo(file, t, durationMs, accessOk) ==
  IF statThrows(file, accessOk)
    THEN Obj([exists |-> Bool(FALSE),
              error |-> Str(IF file.exists THEN "EACCES" ELSE "ENOENT")])
    ELSE Obj([exists |-> Bool(TRUE),
              modifiedTime |-> Str(ToString(file.mtime)),
              modelCount |-> Num(Len(load(file, t, durationMs))),
              isValid |-> Bool(isValid(file, t, durationMs))])

\* ------------------------------------------------------------------------
\* ModelManager
\* ------------------------------------------------------------------------
\* new ModelManager(options): cacheDurationHours || 24
ModelManagerCacheHours(cacheDurationHours) ==
  IF cacheDurationHours = 0 THEN 24 ELSE cacheDurationHours

\* What the models endpoint may send back as one element of data
RawEntries ==
  { Obj([id |-> Str("openai:gpt-4"), object |-> Str("model"),
         created |-> Num(1234567890), owned_by |-> Str("OpenAI")]),
    Obj([id |-> Str("claude-3")]),
    Obj([object |-> Str("model")]),
    Null }

RawSeqs == UNION {[1..n -> RawEntries] : n \in 0..MaxRaw}

\* Outcomes of axios.get: a rejection (network error, timeout, non-2xx
\* status), or a response with a status and a body
Responses ==
  {[rejected |-> TRUE, status |-> 0, data |-> Undefined]}
    \cup {[rejected |-> FALSE, status |-> 204, data |-> Obj([data |-> Arr(<<>>)])]}
    \cup {[rejected |-> FALSE, status |-> 200, data |-> Obj([object |-> Str("list")])]}
    \cup {[rejected |-> FALSE, status |-> 200, data |-> Obj([data |-> Arr(raw)])] :
            raw \in RawSeqs}

\* the catch block of the per-entry try reads modelData.id
entryCatchThrows(modelData) == PropThrows(modelData)

\* Faulty variant of fetchFromApiThrows: a failed request is swallowed and
\* yields no models
fetchFromApiSwallows(response) ==
  /\ ~response.rejected
  /\ response.status = 200
  /\ LET modelsData == Or(Prop(response.data, "data"), Arr(<<>>))
     IN \E i \in 1..Len(modelsData.a) :
          ModelInfoImplThrows(modelsData.a[i]) /\ PropThrows(modelsData.a[i])

\* fetchFromApi() throws ApiError
fetchFromApiThrows(response) ==
  \/ response.rejected
  \/ response.status # 200
  \/ LET modelsData == Or(Prop(response.data, "data"), Arr(<<>>))
     IN \E i \in 1..Len(modelsData.a) :
          ModelInfoImplThrows(modelsData.a[i]) /\ entryCatchThrows(modelsData.a[i])

\* fetchFromApi() when it returns
fetchFromApi(response) ==
  LET modelsData == Or(Prop(response.data, "data"), Arr(<<>>))
      good == SelectSeq(modelsData.a, LAMBDA modelData : ~ModelInfoImplThrows(modelData))
  IN [i \in 1..Len(good) |-> ModelInfoImpl(good[i])]

\* Faulty variants of useCache: the test on forceRefresh inverted, and
\* forceRefresh ignored
useCacheInverted(forceRefresh, valid) == forceRefresh /\ valid
useCacheIgnoresForce(forceRefresh, valid) == valid

\* fetchModels: the cache is used instead of the endpoint
useCache(forceRefresh, valid) == ~forceRefresh /\ valid

\* Faulty variant of shouldSave: an empty result is saved too
shouldSaveAlways(models) == TRUE

\* fetchModels: the fetched models are written to the cache
shouldSave(models) == Len(models) > 0

\* fetchModels(forceRefresh): the record of a call that starts in the
\* current state
fetchModelsCall(forceRefresh) ==
  [NoCall EXCEPT !.op = "fetchModels", !.forceRefresh = forceRefresh,
                 !.validBefore = isValid(cacheFile, now, cacheDurationMs),
                 !.afterCorruptHit = corruptHit, !.seq = 1 - last.seq]

\* fetchModels(forceRefresh = false), recorded in call
fetchModels(forceRefresh, call) ==
       /\ UNCHANGED <<now, apiKey, cacheDurationMs, recording, configVars>>
       /\ corruptHit' = /\ ~forceRefresh
                        /\ call.validBefore
                        /\ loadThrows(cacheFile.text)
       /\ IF useCache(forceRefresh, isValid(cacheFile, now, cacheDurationMs))
            THEN /\ last' = [call EXCEPT !.result = load(cacheFile, now, cacheDurationMs)]
                 /\ UNCHANGED <<cacheFile, cacheDir, cacheSaved>>
          ELSE IF ~Truthy(apiKey)
            THEN /\ last' = call
                 /\ UNCHANGED <<cacheFile, cacheDir, cacheSaved>>
          ELSE \E response \in Responses :
                 LET seen == IF recording THEN response ELSE NoCall.response
                 IN
                 IF fetchFromApiThrows(response)
                   THEN /\ last' = [call EXCEPT !.fetcherCalls = 1, !.response = seen,
                                                !.threw = TRUE]
                        /\ UNCHANGED <<cacheFile, cacheDir, cacheSaved>>
                 ELSE LET models == fetchFromApi(response)
                          fetched == [call EXCEPT !.fetcherCalls = 1,
                                                  !.response = seen,
                                                  !.result = models]
                      IN IF shouldSave(models)
                           THEN \E io \in SaveOutcomes(cacheDir) :
                                  /\ cacheDir' = saveDir(cacheDir, io)
                                  /\ cacheFile' = save(cacheFile, models, now, io = "ok")
                                  /\ cacheSaved' = IF io = "ok" THEN Saved(models)
                                                   ELSE cacheSaved
                                  /\ last' = [fetched EXCEPT !.saved =
                                                IF saveResult(io) THEN "true" ELSE "false"]
                           ELSE /\ last' = fetched
                                /\ UNCHANGED <<cacheFile, cacheDir, cacheSaved>>

FetchModels ==
  \E forceRefresh \in BOOLEAN : fetchModels(forceRefresh, fetchModelsCall(forceRefresh))

\* ConfigManager.hasApiKey() of the application whose key the manager got
hasApiKey == Truthy(apiKey)

\* a command of the CLI given with or without --refresh, before it has
\* fetched anything
commandCall(op, refresh) ==
  [fetchModelsCall(FALSE) EXCEPT !.op = op, !.info = [refresh |-> refresh]]

\* synclaude models [--refresh]: listModels(options) fetches with
\* options.refresh and shows the sorted list; an error of the fetch is
\* caught and shown (threw tells that there was one)
ListModelsCommand ==
  \E refresh \in BOOLEAN :
    IF ~hasApiKey
      THEN /\ last' = commandCall("models", refresh)
           /\ UNCHANGED <<cacheFile, cacheDir, cacheSaved, now, apiKey, cacheDurationMs,
                          corruptHit, recording, configVars>>
      ELSE fetchModels(refresh,
                       [commandCall("models", refresh) EXCEPT !.forceRefresh = refresh])

\* synclaude search <query> [--refresh]: searchModels(query, options) calls
\* modelManager.searchModels(query, undefined), which fetches with
\* fetchModels(); options is only logged
SearchModelsCommand ==
  \E refresh \in BOOLEAN :
    IF ~hasApiKey
      THEN /\ last' = commandCall("search", refresh)
           /\ UNCHANGED <<cacheFile, cacheDir, cacheSaved, now, apiKey, cacheDurationMs,
                          corruptHit, recording, configVars>>
      ELSE fetchModels(FALSE, commandCall("search", refresh))

\* clearCache(): cache.clear()
ClearCache ==
  /\ \E unlinkOk \in IF cacheFile.exists THEN BOOLEAN ELSE {FALSE} :
       /\ cacheFile' = clear(cacheFile, unlinkOk)
       /\ cacheSaved' = IF clearResult(cacheFile, unlinkOk) THEN NothingSaved
                        ELSE cacheSaved
       /\ last' = [NoCall EXCEPT !.op = "clearCache", !.seq = 1 - last.seq,
                                 !.threw = FALSE,
                                 !.io = IF unlinkOk THEN "ok" ELSE "unlink failed",
                                 !.answer = Bool(clearResult(cacheFile, unlinkOk))]
  /\ corruptHit' = FALSE
  /\ UNCHANGED <<cacheDir, now, apiKey, cacheDurationMs, recording, configVars>>

\* Texts a damaged cache file may hold
DamagedCacheTexts ==
  { GarbageText(FALSE),
    JsonText(Null),
    JsonText(Obj([models |-> Arr(<<Obj([id |-> Str("hf:llama"),
                                        created |-> Str("yesterday")])>>),
                  count |-> Num(1)])),
    JsonText(Obj([models |-> Str("openai:gpt-4")])) }

\* The cache file is damaged on disk (partial write, disk corruption)
DamageCache ==
  /\ \E text \in DamagedCacheTexts : cacheFile' = File(text, now)
  /\ last' = [NoCall EXCEPT !.op = "damage", !.seq = 1 - last.seq]
  /\ corruptHit' = FALSE
  /\ cacheSaved' = NothingSaved
  /\ UNCHANGED <<cacheDir, now, apiKey, cacheDurationMs, recording, configVars>>

\* the entries of RawEntries that pass validation, as ModelInfoImpl objects
Models == {ModelInfoImpl(d) : d \in {e \in RawEntries : ~ModelInfoImplThrows(e)}}

\* Sequences save(models) is called with
ModelSeqs == UNION {[1..n -> Models] : n \in 0..MaxRaw}

\* cache.isValid() called on its own; stat may fail on a file that exists
CacheIsValid ==
  /\ \E accessOk \in BOOLEAN :
       last' = [NoCall EXCEPT !.op = "isValid", !.seq = 1 - last.seq,
                  !.io = IF accessOk THEN "ok" ELSE "stat failed",
                  !.answer = IF statThrows(cacheFile, accessOk)
                               THEN Bool(FALSE)
                               ELSE Bool(isValid(cacheFile, now, cacheDurationMs))]
  /\ UNCHANGED <<cacheFile, cacheDir, cacheSaved, now, apiKey, cacheDurationMs,
                 corruptHit, recording, configVars>>

\* cache.load() called on its own
CacheLoad ==
  /\ last' = [NoCall EXCEPT !.op = "load", !.seq = 1 - last.seq,
                            !.result = load(cacheFile, now, cacheDurationMs)]
  /\ UNCHANGED <<cacheFile, cacheDir, cacheSaved, now, apiKey, cacheDurationMs,
                 corruptHit, recording, configVars>>

\* cache.save(models) called on its own
CacheSave ==
  /\ \E models \in ModelSeqs, io \in SaveOutcomes(cacheDir) :
       /\ cacheDir' = saveDir(cacheDir, io)
       /\ cacheFile' = save(cacheFile, models, now, io = "ok")
       /\ cacheSaved' = IF io = "ok" THEN Saved(models) ELSE cacheSaved
       /\ last' = [NoCall EXCEPT !.op = "save", !.seq = 1 - last.seq,
                                 !.result = models, !.io = io,
                                 !.dirBefore = cacheDir,
                                 !.answer = Bool(saveResult(io))]
  /\ corruptHit' = FALSE
  /\ UNCHANGED <<now, apiKey, cacheDurationMs, recording, configVars>>

\* getCacheInfo(): cache.getInfo(); stat may fail on a file that exists
CacheGetInfo ==
  /\ \E accessOk \in BOOLEAN :
       last' = [NoCall EXCEPT !.op = "getInfo", !.seq = 1 - last.seq,
                  !.io = IF accessOk THEN "ok" ELSE "stat failed",
                  !.answer = getInfo(cacheFile, now, cacheDurationMs, accessOk)]
  /\ UNCHANGED <<cacheFile, cacheDir, cacheSaved, now, apiKey, cacheDurationMs,
                 corruptHit, recording, configVars>>

\* Characters of the ids of entries, and the ids
IdChars == {":", "a", "b", "B"}
Ids == UNION {[1..n -> IdChars] : n \in 0..MaxIdLen}

\* an entry with the given id, before any of its methods is called
InfoOf(id) == [id |-> id, asked |-> {}, provider |-> <<>>, name |-> <<>>]

\* model.getProvider() on the entry at hand
GetProvider ==
  /\ last.op = "info"
  /\ last' = [last EXCEPT !.info.asked = @ \cup {"provider"},
                          !.info.provider = getProvider(last.info.id)]
  /\ UNCHANGED <<cacheFile, cacheDir, cacheSaved, now, apiKey, cacheDurationMs,
                 corruptHit, recording, configVars>>

\* model.getModelName() on the entry at hand
GetModelName ==
  /\ last.op = "info"
  /\ last' = [last EXCEPT !.info.asked = @ \cup {"name"},
                          !.info.name = getModelName(last.info.id)]
  /\ UNCHANGED <<cacheFile, cacheDir, cacheSaved, now, apiKey, cacheDurationMs,
                 corruptHit, recording, configVars>>

\* [...models].sort((a, b) => a.id.localeCompare(b.id)): a sorted copy; the
\* sort is stable
RECURSIVE sortById(_)
sortById(models) ==
  IF models = <<>> THEN <<>>
  ELSE LET front == sortById(SubSeq(models, 1, Len(models) - 1))
           model == models[Len(models)]
           k == Cardinality({i \in 1..Len(front) :
                               localeCompare(front[i].id, model.id) <= 0})
       IN SubSeq(front, 1, k) \o <<model>> \o SubSeq(front, k + 1, Len(front))

\* Faulty variant of getModels: the copy is returned as it is
getModelsUnsorted(models) == models

\* getModels(models) for models that are given
getModels(models) == sortById(models)

\* Faulty variant of searchText: the id alone
searchTextIdOnly(model) == toLowerCase(model.id)

\* the text of an entry that searchModels looks into
searchText(model) ==
  Join(<<toLowerCase(model.id), toLowerCase(getProvider(model.id)),
         toLowerCase(getModelName(model.id))>>)

\* the loop of searchModels: the entries of models, in their order, whose
\* text includes queryLower
RECURSIVE matchingModels(_, _)
matchingModels(queryLower, models) ==
  IF models = <<>> THEN <<>>
  ELSE (IF IncludesText(searchText(Head(models)), queryLower)
          THEN <<Head(models)>> ELSE <<>>)
         \o matchingModels(queryLower, Tail(models))

\* searchModels(query, models) for models that are given
searchModels(query, models) ==
  IF query = <<>> THEN getModels(models)
  ELSE sortById(matchingModels(toLowerCase(query), models))

\* The ids of the entries that are listed and searched, and the queries
ListedIds ==
  { <<"a", ":", "b">>, <<"B", ":", "a">>, <<"b">>, <<"B">>, <<"a">> }
ModelLists == UNION {[1..n -> {[id |-> id] : id \in ListedIds}] : n \in 0..MaxModels}
Queries ==
  { <<>>, <<"b">>, <<"B">>, <<"a", ":">>, <<"u", "n">>, <<" ">>, <<"b", " ", "a">>,
    <<"b", "b">> }

\* getModels(models): the array at hand is models before the call and
\* whatever the call leaves in it afterwards
GetModels ==
  /\ last.op = "list"
  /\ \/ /\ last.info.given
        /\ last' = [last EXCEPT !.info.called = "getModels",
                                !.result = getModels(last.info.models)]
     \/ /\ ~last.info.given
        /\ last' = [last EXCEPT !.info.called = "getModels", !.threw = TRUE]
  /\ UNCHANGED <<cacheFile, cacheDir, cacheSaved, now, apiKey, cacheDurationMs,
                 corruptHit, recording, configVars>>

\* searchModels(query, models) with the array at hand
SearchModels ==
  /\ last.op = "list"
  /\ last.info.given
  /\ \E query \in Queries :
       last' = [last EXCEPT !.info.called = "searchModels",
                            !.info.query = query,
                            !.threw = FALSE,
                            !.result = searchModels(query, last.info.models)]
  /\ UNCHANGED <<cacheFile, cacheDir, cacheSaved, now, apiKey, cacheDurationMs,
                 corruptHit, recording, configVars>>

\* What a caller may hand to the constructor of an entry
EntryData ==
  RawEntries
    \cup { Obj([id |-> Str("")]),
           Obj([id |-> Str(""), object |-> Str("model")]),
           Obj([id |-> Num(1)]),
           Obj([id |-> Null, object |-> Str("model")]),
           Obj([id |-> Str("claude-3"), object |-> Str("list")]),
           Obj([id |-> Str("claude-3"), object |-> Num(1)]),
           Obj(<<>>),
           Undefined }

\* new ModelInfoImpl(data): the entries constructed are none when it throws
NewModelInfo ==
  /\ last.op \in {"info", "new"}
  /\ \E data \in EntryData :
       last' = [NoCall EXCEPT
                  !.op = "new",
                  !.threw = ModelInfoImplThrows(data),
                  !.info = [data |-> data,
                            entries |-> IF ModelInfoImplThrows(data) THEN {}
                                        ELSE {ModelInfoImpl(data)}]]
  /\ UNCHANGED <<cacheFile, cacheDir, cacheSaved, now, apiKey, cacheDurationMs,
                 corruptHit, recording, configVars>>

\* Valid data of an entry: an id, an object, and created and owned_by or not
ValidEntryData ==
  { Obj([f \in {"id", "object"} \cup optional |->
           IF f = "id" THEN Str(id)
           ELSE IF f = "object" THEN object
           ELSE IF f = "created" THEN created
           ELSE owned_by]) :
      id \in ListedIds \cup {<<>>},
      object \in {Str("model"), Str("list")},
      created \in {Num(0), Num(1234567890)},
      owned_by \in {Str("OpenAI"), Str("")},
      optional \in SUBSET {"created", "owned_by"} }

\* an entry constructed from data, before any of its methods is called
EntryOf(data) ==
  [data |-> data, entry |-> ModelInfoImpl(data), json |-> Undefined,
   rebuilt |-> FALSE, again |-> {}, names |-> <<>>]

\* model.toJSON() on the entry at hand
ToJSON ==
  /\ last.op = "entry"
  /\ last' = [last EXCEPT !.info.json = toJSON(last.info.entry)]
  /\ UNCHANGED <<cacheFile, cacheDir, cacheSaved, now, apiKey, cacheDurationMs,
                 corruptHit, recording, configVars>>

\* new ModelInfoImpl(json) with what toJSON returned
FromJSON ==
  /\ last.op = "entry"
  /\ last.info.json # Undefined
  /\ last' = [last EXCEPT
               !.threw = ModelInfoImplThrows(last.info.json),
               !.info.rebuilt = TRUE,
               !.info.again = IF ModelInfoImplThrows(last.info.json) THEN {}
                              ELSE {ModelInfoImpl(last.info.json)}]
  /\ UNCHANGED <<cacheFile, cacheDir, cacheSaved, now, apiKey, cacheDurationMs,
                 corruptHit, recording, configVars>>

\* getProvider() and getModelName() on the entry at hand and on the one
\* constructed from its JSON
GetNames ==
  /\ last.op = "entry"
  /\ last.info.again # {}
  /\ last' = [last EXCEPT !.info.names =
               LET names(model) == <<getProvider(model.id.s), getModelName(model.id.s)>>
               IN <<names(last.info.entry)>>
                    \o <<names(CHOOSE model \in last.info.again : TRUE)>>]
  /\ UNCHANGED <<cacheFile, cacheDir, cacheSaved, now, apiKey, cacheDurationMs,
                 corruptHit, recording, configVars>>

\* ------------------------------------------------------------------------
\* ModelSelector
\* ------------------------------------------------------------------------
\* the text of an entry that the filter of the selector looks into
selectorSearchText(model) ==
  Join(<<toLowerCase(model.id), toLowerCase(getProvider(model.id)),
         toLowerCase(getModelName(model.id))>>)

\* models.filter(model => searchText.includes(query))
RECURSIVE filterModels(_, _)
filterModels(query, models) ==
  IF models = <<>> THEN <<>>
  ELSE (IF IncludesText(selectorSearchText(Head(models)), query)
          THEN <<Head(models)>> ELSE <<>>)
         \o filterModels(query, Tail(models))

\* the effect on [searchQuery, models], run after a render in which
\* searchQuery has changed
filterEffect(before, st) ==
  IF st.searchQuery = before.searchQuery THEN st
  ELSE IF st.searchQuery = <<>> THEN [st EXCEPT !.filteredModels = st.models]
  ELSE [st EXCEPT !.filteredModels = filterModels(toLowerCase(st.searchQuery), st.models),
                  !.selectedIndex = 0]

\* A key as useInput reports it: the text typed, or the name of a key that
\* types nothing
Digits == {"1", "2"}
TextKeys == {[input |-> c, name |-> "none"] : c \in {"a", "x", "q"} \cup Digits}
NamedKeys ==
  {[input |-> "", name |-> n] :
     n \in {"backspace", "delete", "escape", "return", "upArrow", "downArrow",
            "leftArrow"}}

\* parseInt(input) for a digit
parseInt(input) == IF input = "1" THEN 1 ELSE 2

\* onSelect(filteredModels[index]) and exit(), when there is such an entry;
\* index counts from 0
selectAt(st, index) ==
  IF index >= 0 /\ index < Len(st.filteredModels)
    THEN [st EXCEPT !.selected = Append(@, st.filteredModels[index + 1]),
                    !.exited = TRUE]
    ELSE st

\* onCancel() and exit()
cancel(st) == [st EXCEPT !.cancels = @ + 1, !.exited = TRUE]

\* the handler given to useInput, branch by branch
useInput(st, key) ==
  IF key.input # "" /\ key.name = "none" /\ key.input # "q"
    THEN [st EXCEPT !.searchQuery = @ \o <<key.input>>]
  ELSE IF key.name \in {"backspace", "delete"}
    THEN [st EXCEPT !.searchQuery = SubSeq(@, 1, Len(@) - 1)]
  ELSE IF key.name = "escape" THEN cancel(st)
  ELSE IF key.name = "return"
    THEN IF Len(st.filteredModels) > 0 /\ st.selectedIndex < Len(st.filteredModels)
           THEN selectAt(st, st.selectedIndex)
           ELSE st
  ELSE IF key.name = "upArrow"
    THEN [st EXCEPT !.selectedIndex = IF @ - 1 > 0 THEN @ - 1 ELSE 0]
  ELSE IF key.name = "downArrow"
    THEN [st EXCEPT !.selectedIndex =
            IF Len(st.filteredModels) - 1 < @ + 1 THEN Len(st.filteredModels) - 1
            ELSE @ + 1]
  ELSE IF key.input \in Digits THEN selectAt(st, parseInt(key.input) - 1)
  ELSE IF key.input = "q" THEN cancel(st)
  ELSE st

\* the selector as it is first rendered with models
SelectorOf(models) ==
  [models |-> models, searchQuery |-> <<>>, selectedIndex |-> 0,
   filteredModels |-> models, selected |-> <<>>, cancels |-> 0, exited |-> FALSE,
   key |-> [input |-> "", name |-> "none"]]

\* a key arrives while the selector is shown: the handler runs, the selector
\* is rendered again and the filter effect runs
pressKey(key) ==
  /\ last.op = "selector"
  /\ ~last.info.exited
  /\ last' = [last EXCEPT !.info =
               filterEffect(last.info, [useInput(last.info, key) EXCEPT !.key = key])]
  /\ UNCHANGED <<cacheFile, cacheDir, cacheSaved, now, apiKey, cacheDurationMs,
                 corruptHit, recording, configVars>>

\* text is typed (the query is kept within MaxQuery characters)
TypeKey ==
  \E key \in TextKeys :
    /\ key.input # "q" => Len(last.info.searchQuery) < MaxQuery
    /\ pressKey(key)

\* a key that types nothing is pressed
NamedKey ==
  \E key \in NamedKeys :
    /\ key.input = ""
    /\ pressKey(key)

\* Time passes
Tick ==
  /\ now < MaxTime * HourMs
  /\ now' = now + HourMs
  /\ UNCHANGED <<cacheFile, cacheDir, cacheSaved, apiKey, cacheDurationMs, corruptHit,
                 last, recording, configVars>>

\* ------------------------------------------------------------------------
\* AppConfigSchema
\* ------------------------------------------------------------------------
\* the result of a call that throws
Thrown == [t |-> "thrown"]

AppConfigFields ==
  {"apiKey", "baseUrl", "anthropicBaseUrl", "modelsApiUrl", "cacheDurationHours",
   "selectedModel", "firstRunCompleted", "autoUpdateCheck", "lastUpdateCheck"}

\* Faulty variant of AppConfigDefaults: the cache lasts one hour by default
AppConfigDefaultsHourly ==
  [apiKey |-> Str(""),
   baseUrl |-> Str("https://api.synthetic.new"),
   anthropicBaseUrl |-> Str("https://api.synthetic.new/anthropic"),
   modelsApiUrl |-> Str("https://api.synthetic.new/openai/v1/models"),
   cacheDurationHours |-> Num(1),
   selectedModel |-> Str(""),
   firstRunCompleted |-> Bool(FALSE),
   autoUpdateCheck |-> Bool(TRUE),
   lastUpdateCheck |-> Str("")]

AppConfigDefaults ==
  [apiKey |-> Str(""),
   baseUrl |-> Str("https://api.synthetic.new"),
   anthropicBaseUrl |-> Str("https://api.synthetic.new/anthropic"),
   modelsApiUrl |-> Str("https://api.synthetic.new/openai/v1/models"),
   cacheDurationHours |-> Num(24),
   selectedModel |-> Str(""),
   firstRunCompleted |-> Bool(FALSE),
   autoUpdateCheck |-> Bool(TRUE),
   lastUpdateCheck |-> Str("")]

MinCacheDurationHours == 1
MaxCacheDurationHours == 168

\* one field of the schema accepts the value v (not undefined)
AppConfigFieldOk(field, v) ==
  CASE field = "cacheDurationHours" ->
         /\ v.t = "number"
         /\ IsInteger(v)
         /\ v.n >= MinCacheDurationHours
         /\ v.n <= MaxCacheDurationHours
    [] field \in {"firstRunCompleted", "autoUpdateCheck"} -> v.t = "boolean"
    [] OTHER -> v.t = "string"

\* Faulty variant of AppConfigSchemaSuccess: any object passes
AppConfigSchemaSuccessLax(data) == data.t = "object"

\* AppConfigSchema.safeParse(data).success
AppConfigSchemaSuccess(data) ==
  /\ data.t = "object"
  /\ \A field \in AppConfigFields :
       Prop(data, field).t = "undefined" \/ AppConfigFieldOk(field, Prop(data, field))

\* AppConfigSchema.safeParse(data).data: unknown keys are stripped, missing
\* ones get their default
AppConfigSchemaData(data) ==
  Obj([field \in AppConfigFields |-> Default(Prop(data, field), AppConfigDefaults[field])])

\* AppConfigSchema.parse(data)
AppConfigSchemaParse(data) ==
  IF AppConfigSchemaSuccess(data) THEN AppConfigSchemaData(data) ELSE Thrown

\* the own properties of a value
Keys(v) == IF v.t = "object" THEN DOMAIN v.o ELSE {}

\* Faulty variant of Spread: the update replaces the current object
SpreadReplaces(currentData, updates) == updates

\* {...currentData, ...updates}
Spread(currentData, updates) ==
  Obj([k \in Keys(currentData) \cup Keys(updates) |->
         IF k \in Keys(updates) THEN updates.o[k] ELSE currentData.o[k]])

\* ------------------------------------------------------------------------
\* ConfigManager
\* ------------------------------------------------------------------------
ConfigFile(text, mode) == [exists |-> TRUE, text |-> text, mode |-> mode]

\* writeFile(path, text): a new file gets the default mode, an existing one
\* keeps its own
writeFile(file, text) ==
  ConfigFile(text, IF file.exists THEN file.mode ELSE "0644")

\* Faulty variant of preservedConfig: the fallback keeps any truthy
\* firstRunCompleted and skips the schema
preservedConfigUnchecked(configData) ==
  Obj([AppConfigDefaults EXCEPT
         !.firstRunCompleted = Or(Prop(configData, "firstRunCompleted"), Bool(FALSE))])

\* loadConfig, the file failed the schema: the fallback built from the one
\* flag that is kept
preservedConfig(configData) ==
  LET preserved == Obj([firstRunCompleted |->
                          Or(Prop(configData, "firstRunCompleted"), Bool(FALSE))])
  IN IF AppConfigSchemaSuccess(preserved)
       THEN AppConfigSchemaData(preserved)
       ELSE AppConfigSchemaParse(Obj(<<>>))

\* loadConfig: the try block throws
loadConfigTryThrows(file) ==
  /\ file.exists
  /\ \/ JSONParseThrows(file.text)
     \/ LET configData == JSONParse(file.text)
        IN ~AppConfigSchemaSuccess(configData) /\ PropThrows(configData)

\* loadConfig: what the try block returns
loadConfigTry(file) ==
  IF ~file.exists THEN AppConfigSchemaParse(Obj(<<>>))
  ELSE LET configData == JSONParse(file.text)
       IN IF ~AppConfigSchemaSuccess(configData)
            THEN preservedConfig(configData)
            ELSE AppConfigSchemaData(configData)

\* Faulty variant of loadConfigCatch: the recovery read is not guarded by
\* its own try
loadConfigCatchUnguarded(file) ==
  IF file.exists /\ (JSONParseThrows(file.text) \/ PropThrows(JSONParse(file.text)))
    THEN Thrown
  ELSE IF file.exists /\ Prop(JSONParse(file.text), "firstRunCompleted") = Bool(TRUE)
    THEN AppConfigSchemaParse(Obj([firstRunCompleted |-> Bool(TRUE)]))
  ELSE AppConfigSchemaParse(Obj(<<>>))

\* loadConfig: what the catch block returns
loadConfigCatch(file) ==
  IF /\ file.exists
     /\ ~JSONParseThrows(file.text)
     /\ ~PropThrows(JSONParse(file.text))
     /\ Prop(JSONParse(file.text), "firstRunCompleted") = Bool(TRUE)
    THEN AppConfigSchemaParse(Obj([firstRunCompleted |-> Bool(TRUE)]))
    ELSE AppConfigSchemaParse(Obj(<<>>))

\* loadConfig()
loadConfig(file) ==
  IF loadConfigTryThrows(file) THEN loadConfigCatch(file) ELSE loadConfigTry(file)

\* saveConfig: config || this._config
configToSave(config, current) == Or(config, current)

\* how far saveConfig's try block got: no step was reached
NoSteps ==
  [mkdir |-> "skipped", backup |-> "skipped", write |-> "skipped", chmod |-> "skipped"]

NoConfigCall ==
  [op |-> "none", loaded |-> FALSE, arg |-> Undefined, result |-> Undefined,
   outcome |-> "none", steps |-> NoSteps]

\* the record of a call of operation op with argument arg
configCall(op, arg) == [NoConfigCall EXCEPT !.op = op, !.arg = arg]

\* get config()
GetConfig ==
  LET value == IF _config = Null THEN loadConfig(configFile) ELSE _config
  IN /\ _config' = IF value = Thrown THEN _config ELSE value
     /\ cfgLast' = [configCall("config", Undefined) EXCEPT
                                        !.loaded = (_config = Null),
                                        !.result = value,
                                        !.outcome = IF value = Thrown THEN "threw"
                                                    ELSE "returned"]
  /\ UNCHANGED <<configFile, backupFile, lastSaved, cacheVars>>

\* What process.env may hold of the variables the documentation names
Environments ==
  { Obj(<<>>),
    Obj([SYNTHETIC_API_KEY |-> Str("env_key")]),
    Obj([SYNTHETIC_BASE_URL |-> Str("https://env.example")]),
    Obj([SYNTHETIC_CACHE_DURATION |-> Str("12")]),
    Obj([SYNTHETIC_API_KEY |-> Str("env_key"),
         SYNTHETIC_BASE_URL |-> Str("https://env.example"),
         SYNTHETIC_CACHE_DURATION |-> Str("12")]) }

\* the options getModelManager builds the ModelManager from
modelManagerOptions(config) ==
  Obj([apiKey |-> Prop(config, "apiKey"),
       modelsApiUrl |-> Prop(config, "modelsApiUrl"),
       cacheDurationHours |-> Prop(config, "cacheDurationHours")])

\* the settings showConfig prints
shownConfig(config) ==
  Obj([apiKey |-> Prop(config, "apiKey"),
       baseUrl |-> Prop(config, "baseUrl"),
       modelsApiUrl |-> Prop(config, "modelsApiUrl"),
       cacheDurationHours |-> Prop(config, "cacheDurationHours"),
       selectedModel |-> Prop(config, "selectedModel"),
       firstRunCompleted |-> Prop(config, "firstRunCompleted")])

\* getModelManager() of an application started in environment env; the
\* settings come from the config getter
GetModelManager ==
  /\ \E env \in Environments :
       LET config == IF _config = Null THEN loadConfig(configFile) ELSE _config
       IN /\ _config' = IF config = Thrown THEN _config ELSE config
          /\ cfgLast' = [configCall("getModelManager", env) EXCEPT
                           !.loaded = (_config = Null),
                           !.result = IF config = Thrown THEN Thrown
                                      ELSE modelManagerOptions(config),
                           !.outcome = IF config = Thrown THEN "threw" ELSE "returned"]
  /\ UNCHANGED <<configFile, backupFile, lastSaved, cacheVars>>

\* showConfig() of an application started in environment env
ShowConfig ==
  /\ \E env \in Environments :
       LET config == IF _config = Null THEN loadConfig(configFile) ELSE _config
       IN /\ _config' = IF config = Thrown THEN _config ELSE config
          /\ cfgLast' = [configCall("showConfig", env) EXCEPT
                           !.loaded = (_config = Null),
                           !.result = IF config = Thrown THEN Thrown
                                      ELSE shownConfig(config),
                           !.outcome = IF config = Thrown THEN "threw" ELSE "returned"]
  /\ UNCHANGED <<configFile, backupFile, lastSaved, cacheVars>>

\* new ConfigManager(configDir) on the same directory
NewConfigManager ==
  /\ _config # Null
  /\ _config' = Null
  /\ cfgLast' = IF recording THEN configCall("new", Undefined) ELSE cfgLast
  /\ UNCHANGED <<configFile, backupFile, lastSaved, cacheVars>>

\* The steps of saveConfig's try block and how each may end: mkdir of the
\* settings directory, the backup copy (made when the file exists), the
\* write of the settings file, chmod.  A step that is not reached is skipped.
SaveSteps(fileExists) ==
  {[NoSteps EXCEPT !.mkdir = "failed"]}
    \cup { [mkdir |-> "ok", backup |-> backup, write |-> "failed", chmod |-> "skipped"] :
             backup \in IF fileExists THEN {"ok", "failed"} ELSE {"skipped"} }
    \cup { [mkdir |-> "ok", backup |-> backup, write |-> "ok", chmod |-> chmod] :
             backup \in IF fileExists THEN {"ok", "failed"} ELSE {"skipped"},
             chmod \in {"ok", "failed"} }

\* Faulty variant of saveConfigThrows: a failed backup or chmod aborts the
\* save as well
saveConfigThrowsOnAnyStep(steps) ==
  \E step \in DOMAIN steps : steps[step] = "failed"

\* Faulty variant of saveConfigThrows: a failed write of the settings file
\* is caught like a failed chmod, and the save goes on
saveConfigThrowsOnMkdirOnly(steps) == steps.mkdir = "failed"

\* saveConfig: the try block throws (rethrown as ConfigSaveError); the
\* errors of the backup copy and of chmod are caught where they occur
saveConfigThrows(steps) == steps.mkdir = "failed" \/ steps.write = "failed"

\* Faulty variant of existingData: the backup is taken after the settings
\* file has been overwritten
existingDataAfterWrite(file, configJson) == configJson

\* saveConfig: what the backup copy reads, before configJson is written
existingData(file, configJson) == file.text

\* the body of saveConfig(config) for a call of operation op with argument arg
saveConfigBody(op, arg, config, current) ==
  LET toSave == configToSave(config, current)
      call == configCall(op, arg)
      ended(steps, outcome, result) ==
        [call EXCEPT !.outcome = outcome, !.result = result,
                     !.steps = IF recording THEN steps ELSE NoSteps]
  IN IF ~Truthy(toSave)
       THEN /\ cfgLast' = ended(NoSteps, "ConfigSaveError", Thrown)
            /\ _config' = current
            /\ UNCHANGED <<configFile, backupFile, lastSaved>>
     ELSE \E steps \in SaveSteps(configFile.exists) :
       LET configJson == JSONStringify(toSave)
           written == writeFile(configFile, configJson)
       IN /\ backupFile' = IF steps.backup = "ok"
                             THEN writeFile(backupFile, existingData(configFile, configJson))
                             ELSE backupFile
          /\ IF saveConfigThrows(steps)
               THEN /\ cfgLast' = ended(steps, "ConfigSaveError", Thrown)
                    /\ _config' = current
                    /\ UNCHANGED <<configFile, lastSaved>>
               ELSE /\ configFile' = IF steps.chmod = "ok"
                                       THEN [written EXCEPT !.mode = "0600"]
                                       ELSE written
                    /\ _config' = toSave
                    /\ lastSaved' = toSave
                    /\ cfgLast' = ended(steps, "returned", Bool(TRUE))

\* Arguments saveConfig is called with: none, or a whole AppConfig
SaveConfigArgs ==
  { Undefined,
    Obj([AppConfigDefaults EXCEPT !.apiKey = Str("k1"),
                                  !.cacheDurationHours = Num(12),
                                  !.autoUpdateCheck = Bool(FALSE)]) }

\* saveConfig(config?)
SaveConfig ==
  /\ \E config \in SaveConfigArgs : saveConfigBody("saveConfig", config, config, _config)
  /\ UNCHANGED cacheVars

\* Partial settings updateConfig is called with
UpdateConfigArgs ==
  { Obj([apiKey |-> Str("k1"), cacheDurationHours |-> Num(12)]),
    Obj([cacheDurationHours |-> Num(0)]),
    Obj([cacheDurationHours |-> Num(169)]),
    Obj([selectedModel |-> Str("openai:gpt-4"), firstRunCompleted |-> Bool(TRUE)]) }

\* Faulty variant of validationFailure: setCacheDuration lets the
\* ConfigValidationError through
validationFailureRethrown(op, call) ==
  [call EXCEPT !.outcome = "ConfigValidationError", !.result = Thrown]

\* what the caller of operation op sees when updateConfig throws a
\* ConfigValidationError: setCacheDuration catches it and returns false
validationFailure(op, call) ==
  IF op = "setCacheDuration"
    THEN [call EXCEPT !.outcome = "returned", !.result = Bool(FALSE)]
    ELSE [call EXCEPT !.outcome = "ConfigValidationError", !.result = Thrown]

\* Faulty variant of updateConfigBody: the update merges over the settings
\* file as it is now
updateConfigBodyOverFile(op, arg, updates) ==
  LET currentData == loadConfig(configFile)
      updatedData == Spread(currentData, updates)
      call == configCall(op, arg)
  IN IF currentData = Thrown
       THEN /\ cfgLast' = [call EXCEPT !.result = Thrown, !.outcome = "ConfigSaveError"]
            /\ UNCHANGED <<configFile, backupFile, _config, lastSaved>>
     ELSE IF ~AppConfigSchemaSuccess(updatedData)
       THEN /\ cfgLast' = validationFailure(op, call)
            /\ _config' = currentData
            /\ UNCHANGED <<configFile, backupFile, lastSaved>>
       ELSE saveConfigBody(op, arg, AppConfigSchemaData(updatedData), currentData)

\* the body of updateConfig(updates) for a call of operation op with
\* argument arg
updateConfigBody(op, arg, updates) ==
  LET currentData == IF _config = Null THEN loadConfig(configFile) ELSE _config
      updatedData == Spread(currentData, updates)
      call == configCall(op, arg)
  IN IF currentData = Thrown
       THEN /\ cfgLast' = [call EXCEPT !.result = Thrown, !.outcome = "ConfigSaveError"]
            /\ UNCHANGED <<configFile, backupFile, _config, lastSaved>>
     ELSE IF ~AppConfigSchemaSuccess(updatedData)
       THEN /\ cfgLast' = validationFailure(op, call)
            /\ _config' = currentData
            /\ UNCHANGED <<configFile, backupFile, lastSaved>>
       ELSE saveConfigBody(op, arg, AppConfigSchemaData(updatedData), currentData)

\* updateConfig(updates)
UpdateConfig ==
  /\ \E updates \in UpdateConfigArgs : updateConfigBody("updateConfig", updates, updates)
  /\ UNCHANGED cacheVars

\* Values setCacheDuration is called with: the ends of the range, their
\* neighbours outside it, and a number that is not an integer
SetCacheDurationArgs == {Num(0), Num(1), Num(168), Num(169), Frac(12)}

\* setCacheDuration(hours)
SetCacheDuration ==
  /\ \E hours \in SetCacheDurationArgs :
       updateConfigBody("setCacheDuration", hours, Obj([cacheDurationHours |-> hours]))
  /\ UNCHANGED cacheVars

\* Faulty variant of isFirstRun: a first run is never detected
isFirstRunNever(config) == FALSE

\* isFirstRun() on the settings the accessor returns
isFirstRun(config) == ~Truthy(Prop(config, "firstRunCompleted"))

\* Faulty variant of hasSavedModel: a selected model is enough
hasSavedModelBeforeFirstRun(config) == Truthy(Prop(config, "selectedModel"))

\* hasSavedModel(): Boolean(selectedModel && firstRunCompleted)
hasSavedModel(config) ==
  Truthy(Prop(config, "selectedModel")) /\ Truthy(Prop(config, "firstRunCompleted"))

\* getSavedModel()
getSavedModel(config) ==
  IF hasSavedModel(config) THEN Prop(config, "selectedModel") ELSE Str("")

\* a call of operation op that reads the settings through the config
\* accessor and answers with answer
readConfig(op, answer(_)) ==
  LET config == IF _config = Null THEN loadConfig(configFile) ELSE _config
  IN /\ _config' = IF config = Thrown THEN _config ELSE config
     /\ cfgLast' = [configCall(op, Undefined) EXCEPT
                      !.loaded = (_config = Null),
                      !.result = IF config = Thrown THEN Thrown ELSE answer(config),
                      !.outcome = IF config = Thrown THEN "threw" ELSE "returned"]
     /\ UNCHANGED <<configFile, backupFile, lastSaved>>

IsFirstRun ==
  /\ LET answer(config) == Bool(isFirstRun(config)) IN readConfig("isFirstRun", answer)
  /\ UNCHANGED cacheVars

HasSavedModel ==
  /\ LET answer(config) == Bool(hasSavedModel(config))
     IN readConfig("hasSavedModel", answer)
  /\ UNCHANGED cacheVars

GetSavedModel ==
  /\ LET answer(config) == getSavedModel(config) IN readConfig("getSavedModel", answer)
  /\ UNCHANGED cacheVars

\* Names of models that are selected and saved
ModelNames == {Str(""), Str("openai:gpt-4"), Str("hf:llama")}

\* setSelectedModel(model)
SetSelectedModel ==
  /\ \E model \in ModelNames :
       updateConfigBody("setSelectedModel", model, Obj([selectedModel |-> model]))
  /\ UNCHANGED cacheVars

\* setSavedModel(model)
SetSavedModel ==
  /\ \E model \in ModelNames :
       updateConfigBody("setSavedModel", model,
                        Obj([selectedModel |-> model, firstRunCompleted |-> Bool(TRUE)]))
  /\ UNCHANGED cacheVars

\* markFirstRunCompleted()
MarkFirstRunCompleted ==
  /\ updateConfigBody("markFirstRunCompleted", Undefined,
                      Obj([firstRunCompleted |-> Bool(TRUE)]))
  /\ UNCHANGED cacheVars

\* ------------------------------------------------------------------------
\* SyntheticClaudeApp.run: the steps of one run after another, each run in a
\* new process; last.info holds the position of the run, its --model option,
\* whether it started as a first run, and the models it launched Claude Code
\* with
\* ------------------------------------------------------------------------
RunOptions == {Undefined, Str(""), Str("openai:gpt-4")}
TypedApiKeys == {Str(""), Str("syn_key")}

NoRun ==
  [pc |-> "idle", option |-> Undefined, firstRun |-> FALSE, launched |-> <<>>]

AtPc(pc) == last.op = "run" /\ last.info.pc = pc

\* the run goes on at pc
goto(pc) == [last EXCEPT !.info.pc = pc, !.threw = FALSE]

\* the cache and the ModelManager are left alone
keepCache ==
  UNCHANGED <<cacheFile, cacheDir, cacheSaved, now, apiKey, cacheDurationMs,
              corruptHit, recording>>

\* selectModel(preselectedModel): the model to launch with, or null
selectModel(preselectedModel, config) ==
  IF Truthy(preselectedModel) THEN preselectedModel
  ELSE IF hasSavedModel(config) THEN getSavedModel(config)
  ELSE Null

\* run(options) in a new process, up to the end of the run or to the
\* start of setup()
RunStart ==
  /\ AtPc("idle")
  /\ \E option \in RunOptions :
       LET config == loadConfig(configFile)
           model == selectModel(option, config)
       IN /\ _config' = config
          /\ last' = [last EXCEPT
                       !.threw = FALSE,
                       !.info = IF isFirstRun(config)
                                  THEN [NoRun EXCEPT !.pc = "setup", !.option = option,
                                                     !.firstRun = TRUE]
                                  ELSE [NoRun EXCEPT !.option = option,
                                                     !.launched = IF model = Null THEN <<>>
                                                                  ELSE <<model>>]]
  /\ keepCache
  /\ UNCHANGED <<configFile, backupFile, lastSaved, cfgLast>>

\* setup(): the API key is taken from the settings or asked for, and saved
SetupApiKey ==
  /\ AtPc("setup")
  /\ \E typed \in TypedApiKeys :
       LET key == IF Truthy(Prop(_config, "apiKey")) THEN Prop(_config, "apiKey")
                  ELSE typed
       IN IF ~Truthy(key)
            THEN /\ last' = goto("idle")
                 /\ UNCHANGED configVars
            ELSE /\ updateConfigBody("setApiKey", key, Obj([apiKey |-> key]))
                 /\ last' = goto(IF cfgLast'.result = Bool(TRUE) THEN "test" ELSE "idle")
  /\ keepCache

\* getModelManager(): the ModelManager is built from the settings
getModelManager ==
  /\ apiKey' = Prop(_config, "apiKey")
  /\ cacheDurationMs' =
       ModelCacheDurationMs(ModelManagerCacheHours(Prop(_config, "cacheDurationHours").n))
  /\ UNCHANGED <<cacheFile, cacheDir, cacheSaved, now, corruptHit, recording, configVars>>

\* setup(): 'Test API connection?'
SetupTestConnection ==
  /\ AtPc("test")
  /\ \E testConnection \in BOOLEAN :
       IF testConnection
         THEN /\ getModelManager
              /\ last' = goto("fetch")
         ELSE /\ last' = goto("select")
              /\ keepCache
              /\ UNCHANGED configVars

\* setup(): modelManager.fetchModels(true)
SetupFetch ==
  /\ AtPc("fetch")
  /\ fetchModels(TRUE, [fetchModelsCall(TRUE) EXCEPT
                          !.op = "run", !.info = [last.info EXCEPT !.pc = "tested"]])

\* setup(): a failed connection ends setup, otherwise it goes on
SetupTested ==
  /\ AtPc("tested")
  /\ last' = goto(IF last.threw THEN "idle" ELSE "select")
  /\ keepCache
  /\ UNCHANGED configVars

\* setup(): 'Select a model now?', and the start of
\* interactiveModelSelection()
SetupSelectModel ==
  /\ AtPc("select")
  /\ \E selectModelNow \in BOOLEAN :
       IF selectModelNow /\ Truthy(Prop(_config, "apiKey"))
         THEN /\ getModelManager
              /\ last' = goto("selection")
         ELSE /\ last' = goto("mark")
              /\ keepCache
              /\ UNCHANGED configVars

\* interactiveModelSelection(): modelManager.fetchModels()
SelectionFetch ==
  /\ AtPc("selection")
  /\ fetchModels(FALSE, [fetchModelsCall(FALSE) EXCEPT
                           !.op = "run", !.info = [last.info EXCEPT !.pc = "fetched"]])

\* interactiveModelSelection(): with models to show, the user selects one
\* (it is saved) or cancels; an error is caught and reported
SelectionPick ==
  /\ AtPc("fetched")
  /\ IF last.threw \/ last.result = <<>>
       THEN /\ last' = goto("mark")
            /\ UNCHANGED configVars
       ELSE \E choice \in 0..Len(last.result) :
              IF choice = 0
                THEN /\ last' = goto("mark")
                     /\ UNCHANGED configVars
                ELSE /\ updateConfigBody("setSavedModel", last.result[choice].id,
                                         Obj([selectedModel |-> last.result[choice].id,
                                              firstRunCompleted |-> Bool(TRUE)]))
                     /\ last' = goto("mark")
  /\ keepCache

\* setup(): markFirstRunCompleted(), the end of setup() and of the run
SetupMarkFirstRun ==
  /\ AtPc("mark")
  /\ updateConfigBody("markFirstRunCompleted", Undefined,
                      Obj([firstRunCompleted |-> Bool(TRUE)]))
  /\ last' = goto("idle")
  /\ keepCache

\* An AppConfig object of the right TypeScript type that the schema rejects
UncheckedConfigs ==
  { Obj([AppConfigDefaults EXCEPT !.cacheDurationHours = Num(500)]) }

\* saveConfig(config) called with an object that was not validated
SaveUncheckedConfig ==
  /\ \E config \in UncheckedConfigs : saveConfigBody("saveConfig", config, config, _config)
  /\ UNCHANGED cacheVars

\* Texts the settings file may hold after damage or an edit by hand
EditedConfigTexts ==
  { GarbageText(FALSE),
    GarbageText(TRUE),
    JsonText(Null),
    JsonText(Arr(<<>>)),
    JsonText(Num(7)),
    JsonText(Obj([apiKey |-> Str("k1"), cacheDurationHours |-> Num(500),
                  firstRunCompleted |-> Bool(TRUE)])),
    JsonText(Obj([apiKey |-> Str("k1"), cacheDurationHours |-> Num(0)])),
    JsonText(Obj([apiKey |-> Num(5), firstRunCompleted |-> Str("yes")])),
    JsonText(Obj([apiKey |-> Str("k1"), theme |-> Str("dark")])) }

\* The settings file is damaged or edited outside the program
EditConfigFile ==
  /\ \E text \in EditedConfigTexts : configFile' = writeFile(configFile, text)
  /\ lastSaved' = Undefined
  /\ cfgLast' = configCall("edit", Undefined)
  /\ UNCHANGED <<backupFile, _config, cacheVars>>

\* a process starts with no settings file and no ConfigManager settings loaded
ConfigInit ==
  /\ configFile = NoFile
  /\ backupFile = NoFile
  /\ _config = Null
  /\ lastSaved = Undefined
  /\ cfgLast = NoConfigCall

ApiKeys == {Str(""), Str("syn_key")}
CacheHours == {1}

Init ==
  /\ cacheFile = NoFile
  /\ cacheDir = TRUE
  /\ cacheSaved = NothingSaved
  /\ now = 0
  /\ apiKey \in ApiKeys
  /\ \E cacheDurationHours \in CacheHours :
       cacheDurationMs = ModelCacheDurationMs(ModelManagerCacheHours(cacheDurationHours))
  /\ corruptHit = FALSE
  /\ last = NoCall
  /\ recording = FALSE
  /\ ConfigInit

Next == FetchModels \/ ClearCache \/ DamageCache \/ Tick

Spec == Init /\ [][Next]_vars

\* The same calls with the endpoint's responses recorded, at one instant
InitFetch ==
  /\ cacheFile = NoFile
  /\ cacheDir = TRUE
  /\ cacheSaved = NothingSaved
  /\ now = 0
  /\ apiKey \in ApiKeys
  /\ \E cacheDurationHours \in CacheHours :
       cacheDurationMs = ModelCacheDurationMs(ModelManagerCacheHours(cacheDurationHours))
  /\ corruptHit = FALSE
  /\ last = NoCall
  /\ recording = TRUE
  /\ ConfigInit

NextFetch == FetchModels \/ ClearCache

SpecFetch == InitFetch /\ [][NextFetch]_vars

\* One entry constructed from valid data, its JSON, and the entry
\* constructed from that
InitEntry ==
  /\ cacheFile = NoFile
  /\ cacheDir = TRUE
  /\ cacheSaved = NothingSaved
  /\ now = 0
  /\ apiKey = Str("")
  /\ cacheDurationMs = ModelCacheDurationMs(ModelManagerCacheHours(0))
  /\ corruptHit = FALSE
  /\ \E data \in ValidEntryData :
       last = [NoCall EXCEPT !.op = "entry", !.info = EntryOf(data)]
  /\ recording = FALSE
  /\ ConfigInit

NextEntry == ToJSON \/ FromJSON \/ GetNames

SpecEntry == InitEntry /\ [][NextEntry]_vars

\* The selector shown with an array of entries, and the keys pressed in it
InitSelector ==
  /\ cacheFile = NoFile
  /\ cacheDir = TRUE
  /\ cacheSaved = NothingSaved
  /\ now = 0
  /\ apiKey = Str("")
  /\ cacheDurationMs = ModelCacheDurationMs(ModelManagerCacheHours(0))
  /\ corruptHit = FALSE
  /\ \E models \in ModelLists :
       last = [NoCall EXCEPT !.op = "selector", !.info = SelectorOf(models)]
  /\ recording = FALSE
  /\ ConfigInit

NextSelector == TypeKey \/ NamedKey

SpecSelector == InitSelector /\ [][NextSelector]_vars

\* The commands of the CLI that read the catalogue
InitCli ==
  /\ cacheFile = NoFile
  /\ cacheDir = TRUE
  /\ cacheSaved = NothingSaved
  /\ now = 0
  /\ apiKey \in ApiKeys
  /\ \E cacheDurationHours \in CacheHours :
       cacheDurationMs = ModelCacheDurationMs(ModelManagerCacheHours(cacheDurationHours))
  /\ corruptHit = FALSE
  /\ last = NoCall
  /\ recording = FALSE
  /\ ConfigInit

NextCli == ListModelsCommand \/ SearchModelsCommand \/ Tick

SpecCli == InitCli /\ [][NextCli]_vars

\* Durations of a cache that is used directly: one that the clock reaches
\* and one that it passes through
DirectCacheHours == {1, 2}

\* The cache used directly and through fetchModels, with no API key
\* configured and the settings directory present or not
InitCache ==
  /\ cacheFile = NoFile
  /\ cacheDir \in BOOLEAN
  /\ cacheSaved = NothingSaved
  /\ now = 0
  /\ apiKey = Str("")
  /\ \E cacheDurationHours \in DirectCacheHours :
       cacheDurationMs = ModelCacheDurationMs(ModelManagerCacheHours(cacheDurationHours))
  /\ corruptHit = FALSE
  /\ last = NoCall
  /\ recording = FALSE
  /\ ConfigInit

NextCache ==
  \/ CacheIsValid
  \/ CacheLoad
  \/ CacheSave
  \/ CacheGetInfo
  \/ FetchModels
  \/ ClearCache
  \/ DamageCache
  \/ Tick

SpecCache == InitCache /\ [][NextCache]_vars

\* One entry with any id and its two parsing methods, and the constructor
\* of entries
InitInfo ==
  /\ cacheFile = NoFile
  /\ cacheDir = TRUE
  /\ cacheSaved = NothingSaved
  /\ now = 0
  /\ apiKey = Str("")
  /\ cacheDurationMs = ModelCacheDurationMs(ModelManagerCacheHours(0))
  /\ corruptHit = FALSE
  /\ \E id \in Ids : last = [NoCall EXCEPT !.op = "info", !.info = InfoOf(id)]
  /\ recording = FALSE
  /\ ConfigInit

NextInfo == NewModelInfo \/ GetProvider \/ GetModelName

SpecInfo == InitInfo /\ [][NextInfo]_vars

\* An array of entries, or none, and the calls that list and search it
ListOf(given, models) ==
  [given |-> given, before |-> models, models |-> models,
   called |-> "none", query |-> <<>>]

InitList ==
  /\ cacheFile = NoFile
  /\ cacheDir = TRUE
  /\ cacheSaved = NothingSaved
  /\ now = 0
  /\ apiKey = Str("")
  /\ cacheDurationMs = ModelCacheDurationMs(ModelManagerCacheHours(0))
  /\ corruptHit = FALSE
  /\ \E info \in {ListOf(FALSE, <<>>)} \cup {ListOf(TRUE, models) : models \in ModelLists} :
       last = [NoCall EXCEPT !.op = "list", !.info = info]
  /\ recording = FALSE
  /\ ConfigInit

NextList == GetModels \/ SearchModels

SpecList == InitList /\ [][NextList]_vars

\* The settings store alone
InitConfig ==
  /\ cacheFile = NoFile
  /\ cacheDir = TRUE
  /\ cacheSaved = NothingSaved
  /\ now = 0
  /\ apiKey = Str("")
  /\ cacheDurationMs = ModelCacheDurationMs(ModelManagerCacheHours(0))
  /\ corruptHit = FALSE
  /\ last = NoCall
  /\ recording = FALSE
  /\ ConfigInit

NextConfig ==
  GetConfig \/ NewConfigManager \/ SaveConfig \/ UpdateConfig \/ EditConfigFile

SpecConfig == InitConfig /\ [][NextConfig]_vars

\* The settings store with the history of each call kept: every save, checked
\* or not, update and setCacheDuration call
InitStore ==
  /\ cacheFile = NoFile
  /\ cacheDir = TRUE
  /\ cacheSaved = NothingSaved
  /\ now = 0
  /\ apiKey = Str("")
  /\ cacheDurationMs = ModelCacheDurationMs(ModelManagerCacheHours(0))
  /\ corruptHit = FALSE
  /\ last = NoCall
  /\ recording = TRUE
  /\ ConfigInit

NextStore ==
  \/ GetConfig
  \/ NewConfigManager
  \/ SaveConfig
  \/ SaveUncheckedConfig
  \/ UpdateConfig
  \/ SetCacheDuration

SpecStore == InitStore /\ [][NextStore]_vars

\* The saved model and the first-run flag, set and read by one instance after
\* another
NextSaved ==
  \/ IsFirstRun
  \/ HasSavedModel
  \/ GetSavedModel
  \/ SetSelectedModel
  \/ SetSavedModel
  \/ MarkFirstRunCompleted
  \/ NewConfigManager

SpecSaved == InitStore /\ [][NextSaved]_vars

\* Runs of the application, one after another, on a machine that starts with
\* no settings and no cache
InitRun ==
  /\ cacheFile = NoFile
  /\ cacheDir = TRUE
  /\ cacheSaved = NothingSaved
  /\ now = 0
  /\ apiKey = Str("")
  /\ cacheDurationMs = ModelCacheDurationMs(ModelManagerCacheHours(0))
  /\ corruptHit = FALSE
  /\ last = [NoCall EXCEPT !.op = "run", !.info = NoRun]
  /\ recording = FALSE
  /\ ConfigInit

NextRun ==
  \/ RunStart
  \/ SetupApiKey
  \/ SetupTestConnection
  \/ SetupFetch
  \/ SetupTested
  \/ SetupSelectModel
  \/ SelectionFetch
  \/ SelectionPick
  \/ SetupMarkFirstRun

SpecRun == InitRun /\ [][NextRun]_vars

\* The application reading its settings, in any environment, between updates
\* of the settings
NextApp ==
  \/ GetModelManager
  \/ ShowConfig
  \/ NewConfigManager
  \/ UpdateConfig

SpecApp == InitStore /\ [][NextApp]_vars

\* ========================================================================
\* Properties of ModelManager.fetchModels
\* ========================================================================
\* the step is a call (every call flips last.seq)
Called == last'.seq # last.seq

\* C1: fetchModels(false) made while the cache is valid returns what
\* cache.load() returns and makes no request to the endpoint.
C1_CacheHitMakesNoRequest ==
  [][(/\ Called
      /\ last'.op = "fetchModels"
      /\ ~last'.forceRefresh
      /\ isValid(cacheFile, now, cacheDurationMs))
     => (/\ last'.fetcherCalls = 0
         /\ ~last'.threw
         /\ last'.result = load(cacheFile, now, cacheDurationMs)
         /\ cacheFile' = cacheFile)]_vars

C1_Witness ==
  /\ last.op = "fetchModels"
  /\ ~last.forceRefresh
  /\ last.validBefore
  /\ last.fetcherCalls = 0
  /\ Len(last.result) > 0

\* C2 as stated: every fetchModels call with forceRefresh true or with a
\* cache that is not valid invokes the fetcher exactly once, whatever the
\* settings hold.
C2_AlwaysFetchesOnce ==
  (last.op = "fetchModels" /\ (last.forceRefresh \/ ~last.validBefore))
    => last.fetcherCalls = 1

\* C2 amended: such a call invokes the fetcher exactly once when the API key
\* is non-empty; with an empty API key it invokes nothing and returns the
\* empty sequence.  In neither case does it return the stale cache.
C2_FetchesOnceWithApiKey ==
  (last.op = "fetchModels" /\ (last.forceRefresh \/ ~last.validBefore))
    => IF Truthy(apiKey)
         THEN last.fetcherCalls = 1
         ELSE last.fetcherCalls = 0 /\ last.result = <<>> /\ ~last.threw

\* a stale file was there during the call and the fetcher was invoked
C2_Witness ==
  /\ last.op = "fetchModels"
  /\ ~last.forceRefresh
  /\ ~last.validBefore
  /\ last.fetcherCalls = 1
  /\ last.saved # "true"
  /\ cacheFile.exists
  /\ ~loadThrows(cacheFile.text)
  /\ now - cacheFile.mtime >= cacheDurationMs

\* C3 as stated: fetchModels(false) on a fresh cache file that cannot be
\* loaded returns the empty sequence, and the next fetchModels(false)
\* invokes the fetcher (an API key being configured).
C3_CorruptCacheRefetched ==
  /\ corruptHit => (last.op = "fetchModels" /\ last.result = <<>> /\ ~last.threw)
  /\ (/\ last.op = "fetchModels"
      /\ ~last.forceRefresh
      /\ last.afterCorruptHit
      /\ Truthy(apiKey))
     => last.fetcherCalls = 1

\* the entries of raw that pass validation, in raw's order
ValidEntries(raw) ==
  LET good == SelectSeq(raw, LAMBDA d : ModelInfoSchemaSuccess(d))
  IN [i \in 1..Len(good) |-> ModelInfoImpl(good[i])]

\* the endpoint answered 200 with a data array
AnsweredWithArray(response) ==
  /\ ~response.rejected
  /\ response.status = 200
  /\ Prop(response.data, "data").t = "array"

\* C4 as stated: whatever the raw entries are, a fetch does not fail because
\* of an invalid entry, returns exactly the valid entries in the fetcher's
\* order and, when there are any and the write succeeds, leaves a cache file
\* whose count is their number.
C4_InvalidEntriesAreIsolated ==
  (/\ last.op = "fetchModels"
   /\ last.fetcherCalls = 1
   /\ AnsweredWithArray(last.response))
    => LET raw == Prop(last.response.data, "data").a
       IN /\ ~last.threw
          /\ last.result = ValidEntries(raw)
          /\ (Len(last.result) > 0 /\ last.saved = "true")
               => /\ cacheFile.exists
                  /\ ~JSONParseThrows(cacheFile.text)
                  /\ Prop(JSONParse(cacheFile.text), "count") = Num(Len(last.result))

\* C5: a fetch whose validated result is empty returns the empty sequence
\* and leaves the cache file as it was.
C5_EmptyResultKeepsCache ==
  [][(/\ Called
      /\ last'.op = "fetchModels"
      /\ last'.fetcherCalls = 1
      /\ ~last'.threw
      /\ last'.result = <<>>)
     => cacheFile' = cacheFile]_vars

C5_Witness ==
  /\ last.op = "fetchModels"
  /\ last.fetcherCalls = 1
  /\ ~last.threw
  /\ last.result = <<>>
  /\ cacheFile.exists
  /\ ~loadThrows(cacheFile.text)

\* the request itself failed
FetcherFailed(response) == response.rejected \/ response.status # 200

\* C6: when the fetcher fails, fetchModels throws, and a fetchModels that
\* throws leaves the cache file as it was.
C6_FailedFetchWritesNothing ==
  [][(Called /\ last'.op = "fetchModels" /\ last'.fetcherCalls = 1)
     => /\ FetcherFailed(last'.response) => last'.threw
        /\ last'.threw => cacheFile' = cacheFile]_vars

C6_Witness ==
  /\ last.op = "fetchModels"
  /\ last.fetcherCalls = 1
  /\ last.response.rejected
  /\ last.threw
  /\ cacheFile.exists

\* ========================================================================
\* Properties of ConfigManager
\* ========================================================================
\* v is an AppConfig: every field of the schema present and accepted by it
IsAppConfig(v) ==
  /\ v.t = "object"
  /\ DOMAIN v.o = AppConfigFields
  /\ \A field \in AppConfigFields : AppConfigFieldOk(field, v.o[field])

\* the last call was the config accessor and it read the settings file
Loaded == cfgLast.op = "config" /\ cfgLast.loaded

\* the schema defaults with the given first-run flag
DefaultsWithFirstRun(flag) ==
  Obj([AppConfigDefaults EXCEPT !.firstRunCompleted = Bool(flag)])

\* C7: whatever the settings file holds (nothing, text that is not JSON,
\* JSON that is null, an array or a scalar, an object the schema rejects),
\* the config accessor does not throw and returns a full AppConfig with
\* 1 <= cacheDurationHours <= 168.
C7_LoadNeverFails ==
  Loaded => (/\ cfgLast.outcome = "returned"
             /\ cfgLast.result # Thrown
             /\ IsAppConfig(cfgLast.result)
             /\ cfgLast.result.o.cacheDurationHours.n \in 1..168)

C7_Witness ==
  /\ Loaded
  /\ configFile.exists
  /\ configFile.text.kind = "garbage"
  /\ cfgLast.outcome = "returned"

\* C8 as stated: when the settings file is not valid JSON but contains the
\* literal "firstRunCompleted":true, load returns the defaults with
\* firstRunCompleted true.
C8_FlagRecoveredFromInvalidJson ==
  (/\ Loaded
   /\ configFile.exists
   /\ configFile.text.kind = "garbage"
   /\ configFile.text.hasFlagText)
    => cfgLast.result = DefaultsWithFirstRun(TRUE)

\* C9: when the settings file is JSON that the schema rejects, load returns
\* the defaults in every field except firstRunCompleted, which is true
\* exactly when the raw value holds the boolean true for it.
C9_SchemaInvalidKeepsOnlyFlag ==
  (/\ Loaded
   /\ configFile.exists
   /\ configFile.text.kind = "json"
   /\ ~AppConfigSchemaSuccess(configFile.text.value))
    => cfgLast.result =
         DefaultsWithFirstRun(Prop(configFile.text.value, "firstRunCompleted") = Bool(TRUE))

C9_Witness ==
  /\ Loaded
  /\ configFile.exists
  /\ configFile.text.kind = "json"
  /\ ~AppConfigSchemaSuccess(configFile.text.value)
  /\ Prop(configFile.text.value, "apiKey") = Str("k1")
  /\ Prop(configFile.text.value, "firstRunCompleted") = Bool(TRUE)
  /\ cfgLast.result = DefaultsWithFirstRun(TRUE)

\* C10: after a successful save or update has stored a schema-valid
\* AppConfig s, a new ConfigManager on the same directory loads an AppConfig
\* equal to s in every field.
C10_SaveLoadRoundTrip ==
  (Loaded /\ lastSaved # Undefined /\ IsAppConfig(lastSaved))
    => cfgLast.result = lastSaved

C10_Witness ==
  /\ Loaded
  /\ lastSaved # Undefined
  /\ IsAppConfig(lastSaved)
  /\ lastSaved.o.autoUpdateCheck = Bool(FALSE)
  /\ lastSaved.o.selectedModel = Str("openai:gpt-4")
  /\ cfgLast.result = lastSaved

\* ========================================================================
\* Properties of ConfigManager.saveConfig, updateConfig, setCacheDuration
\* (every step of SpecStore records the call it makes in cfgLast)
\* ========================================================================
\* the Settings an instance holds: what its config accessor returns
Settings(memory, file) == IF memory = Null THEN loadConfig(file) ELSE memory

\* the partial update names a cacheDurationHours outside 1..168
NamesHoursOutOfRange(updates) ==
  /\ Prop(updates, "cacheDurationHours").t = "number"
  /\ \/ Prop(updates, "cacheDurationHours").n < 1
     \/ Prop(updates, "cacheDurationHours").n > 168

\* the step leaves the settings file, its backup and the Settings of the
\* instance as they were
StoreUnchanged ==
  /\ configFile' = configFile
  /\ backupFile' = backupFile
  /\ Settings(_config', configFile') = Settings(_config, configFile)
  /\ _config # Null => _config' = _config

\* C11: an updateConfig whose merged object fails validation (in particular
\* one that names a cacheDurationHours outside 1..168) throws a
\* ConfigValidationError, and an updateConfig that throws it leaves the
\* settings file, the backup file and the Settings of the instance as they
\* were before the call.
C11_InvalidUpdateChangesNothing ==
  [][(cfgLast'.op = "updateConfig")
     => /\ NamesHoursOutOfRange(cfgLast'.arg)
             => cfgLast'.outcome = "ConfigValidationError"
        /\ cfgLast'.outcome = "ConfigValidationError" => StoreUnchanged]_vars

C11_Witness ==
  /\ cfgLast.op = "updateConfig"
  /\ cfgLast.arg = Obj([cacheDurationHours |-> Num(169)])
  /\ cfgLast.outcome = "ConfigValidationError"
  /\ configFile.exists
  /\ backupFile.exists
  /\ _config # Null
  /\ _config.o.cacheDurationHours = Num(12)
  /\ configFile.text = JSONStringify(_config)

\* C12 as stated: after any sequence of load, save and update calls, the
\* Settings held in memory and the Settings written to the settings file
\* satisfy the schema; in particular cacheDurationHours is an integer with
\* 1 <= cacheDurationHours <= 168.
C12_StoredSettingsSatisfySchema ==
  /\ _config # Null
       => /\ IsAppConfig(_config)
          /\ IsInteger(_config.o.cacheDurationHours)
          /\ _config.o.cacheDurationHours.n \in 1..168
  /\ configFile.exists
       => /\ ~JSONParseThrows(configFile.text)
          /\ IsAppConfig(JSONParse(configFile.text))
          /\ JSONParse(configFile.text).o.cacheDurationHours.n \in 1..168

\* the operations that end in saveConfig
SaveOps == {"saveConfig", "updateConfig", "setCacheDuration"}

\* C13: a save made while a settings file exists attempts the backup copy
\* before it overwrites the file; when that copy does not fail, the backup
\* file holds afterwards exactly the text the settings file held before the
\* save, whether or not the write of the settings file then succeeds.
C13_BackupHoldsPreviousBytes ==
  [][(cfgLast'.op \in SaveOps /\ configFile.exists)
     => /\ cfgLast'.result = Bool(TRUE) => cfgLast'.steps.backup \in {"ok", "failed"}
        /\ cfgLast'.steps.backup = "ok"
             => /\ backupFile'.exists
                /\ backupFile'.text = configFile.text
        /\ cfgLast'.steps.backup # "ok" => backupFile' = backupFile]_vars

C13_Witness ==
  /\ cfgLast.op = "saveConfig"
  /\ cfgLast.outcome = "returned"
  /\ cfgLast.steps.backup = "ok"
  /\ backupFile.exists
  /\ configFile.exists
  /\ backupFile.text # configFile.text
  /\ backupFile.text = JSONStringify(Obj(AppConfigDefaults))

\* C14 as stated: saveConfig throws a ConfigSaveError only if the settings
\* directory could not be created or the write of the settings file failed;
\* a failed backup copy or chmod never makes it throw, and nothing else does.
C14_SaveFailsOnlyOnMkdirOrWrite ==
  cfgLast.op = "saveConfig"
    => (cfgLast.outcome = "ConfigSaveError"
          <=> (cfgLast.steps.mkdir = "failed" \/ cfgLast.steps.write = "failed"))

\* C14 amended: saveConfig throws a ConfigSaveError exactly when there is
\* nothing to save (no argument, and the instance holds no Settings), the
\* settings directory could not be created, or the write of the settings
\* file failed; otherwise it returns true, also when the backup copy or
\* chmod failed.
C14_SaveFailsOnNothingToSaveMkdirOrWrite ==
  [][(cfgLast'.op = "saveConfig")
     => /\ cfgLast'.outcome = "ConfigSaveError"
             <=> \/ ~Truthy(cfgLast'.arg) /\ _config = Null
                 \/ cfgLast'.steps.mkdir = "failed"
                 \/ cfgLast'.steps.write = "failed"
        /\ cfgLast'.outcome # "ConfigSaveError"
             => /\ cfgLast'.outcome = "returned"
                /\ cfgLast'.result = Bool(TRUE)]_vars

\* a save that returned true although the backup copy and chmod both failed
C14_Witness ==
  /\ cfgLast.op = "saveConfig"
  /\ cfgLast.outcome = "returned"
  /\ cfgLast.result = Bool(TRUE)
  /\ cfgLast.steps.backup = "failed"
  /\ cfgLast.steps.chmod = "failed"
  /\ configFile.text = JSONStringify(_config)

\* C15: after a successful updateConfig(updates), every field named in
\* updates holds the value given for it and every other field holds the
\* value it had before the call, both in the Settings of the instance and in
\* the Settings a new instance loads from the file.
C15_UpdateChangesOnlyNamedFields ==
  [][(cfgLast'.op = "updateConfig" /\ cfgLast'.result = Bool(TRUE))
     => LET before == Settings(_config, configFile)
            expected == Obj([field \in AppConfigFields |->
                               IF field \in Keys(cfgLast'.arg)
                                 THEN cfgLast'.arg.o[field]
                                 ELSE before.o[field]])
        IN /\ _config' = expected
           /\ loadConfig(configFile') = expected]_vars

\* an update of apiKey and cacheDurationHours that kept a selected model
C15_Witness ==
  /\ cfgLast.op = "updateConfig"
  /\ cfgLast.result = Bool(TRUE)
  /\ cfgLast.arg = Obj([apiKey |-> Str("k1"), cacheDurationHours |-> Num(12)])
  /\ _config # Null
  /\ _config.o.apiKey = Str("k1")
  /\ _config.o.cacheDurationHours = Num(12)
  /\ _config.o.selectedModel = Str("openai:gpt-4")
  /\ _config.o.firstRunCompleted = Bool(TRUE)
  /\ _config.o.baseUrl = AppConfigDefaults.baseUrl
  /\ loadConfig(configFile) = _config

\* v is an integer with 1 <= v <= 168
HoursInRange(v) == v.t = "number" /\ IsInteger(v) /\ 1 <= v.n /\ v.n <= 168

\* C16 as stated: setCacheDuration(v) returns true exactly when v is an
\* integer with 1 <= v <= 168, and false for every other v.
C16_SetCacheDurationSucceedsIffInRange ==
  cfgLast.op = "setCacheDuration"
    => cfgLast.result = Bool(HoursInRange(cfgLast.arg))

\* C16 amended: setCacheDuration(v) returns false, and leaves the stored
\* Settings as they were, exactly when v is not an integer with
\* 1 <= v <= 168; for an integer v in the range it returns true and stores v
\* in memory and in the file, unless the settings directory cannot be created
\* or the settings file cannot be written: then it throws a ConfigSaveError
\* and the stored value is unchanged.
C16_SetCacheDurationInRangeOrSaveError ==
  [][(cfgLast'.op = "setCacheDuration")
     => LET v == cfgLast'.arg
            before == Settings(_config, configFile)
        IN IF ~HoursInRange(v)
             THEN /\ cfgLast'.outcome = "returned"
                  /\ cfgLast'.result = Bool(FALSE)
                  /\ StoreUnchanged
             ELSE \/ /\ cfgLast'.outcome = "returned"
                     /\ cfgLast'.result = Bool(TRUE)
                     /\ _config'.o.cacheDurationHours = v
                     /\ loadConfig(configFile').o.cacheDurationHours = v
                  \/ /\ cfgLast'.outcome = "ConfigSaveError"
                     /\ \/ cfgLast'.steps.mkdir = "failed"
                        \/ cfgLast'.steps.write = "failed"
                     /\ configFile' = configFile
                     /\ Settings(_config', configFile') = before]_vars

\* the upper end of the range was stored over another value
C16_Witness ==
  /\ cfgLast.op = "setCacheDuration"
  /\ cfgLast.arg = Num(168)
  /\ cfgLast.result = Bool(TRUE)
  /\ _config # Null
  /\ _config.o.cacheDurationHours = Num(168)
  /\ loadConfig(configFile) = _config
  /\ backupFile.exists
  /\ JSONParse(backupFile.text).o.cacheDurationHours = Num(1)

\* ========================================================================
\* Properties of ModelCache
\* ========================================================================
\* the age of the cache file at the time t
Age(file, t) == t - file.mtime

\* C17: isValid() never throws, and it returns true exactly when stat
\* succeeds on the cache file (the file exists and can be accessed) and the
\* age of the file is strictly less than cacheDurationHours hours; an age of
\* exactly the duration gives false.
C17_IsValidIffFresh ==
  [][(Called /\ last'.op = "isValid")
     => /\ ~last'.threw
        /\ \E cacheDurationHours \in 1..168 :
             /\ cacheDurationMs = cacheDurationHours * 3600000
             /\ last'.answer = Bool(/\ cacheFile.exists
                                    /\ last'.io = "ok"
                                    /\ Age(cacheFile, now) < cacheDurationHours * 3600000)]_vars

\* a file whose age is exactly the duration was found invalid
C17_Witness ==
  /\ last.op = "isValid"
  /\ last.io = "ok"
  /\ cacheFile.exists
  /\ cacheSaved.known
  /\ Age(cacheFile, now) = cacheDurationMs
  /\ last.answer = Bool(FALSE)

\* the file is missing or its age has reached the duration
NotFresh(file, t) == ~file.exists \/ Age(file, t) >= cacheDurationMs

\* the text is not JSON, or holds no sequence of entries that all pass
\* validation
NotLoadable(text) ==
  \/ text.kind # "json"
  \/ LET models == Prop(text.value, "models")
     IN \/ models.t # "array"
        \/ \E i \in 1..Len(models.a) : ~ModelInfoSchemaSuccess(models.a[i])

\* C18: load() never throws, whatever the cache file holds; it returns the
\* empty sequence when the file is missing or expired, and when the file is
\* fresh but its text cannot be parsed or an entry in it fails validation.
C18_LoadNeverThrows ==
  [][(Called /\ last'.op = "load")
     => /\ ~last'.threw
        /\ NotFresh(cacheFile, now) => last'.result = <<>>
        /\ (~NotFresh(cacheFile, now) /\ NotLoadable(cacheFile.text))
             => last'.result = <<>>
        /\ cacheFile' = cacheFile]_vars

\* a fresh file with an entry of the wrong type was loaded as nothing
C18_Witness ==
  /\ last.op = "load"
  /\ cacheFile.exists
  /\ Age(cacheFile, now) < cacheDurationMs
  /\ cacheFile.text.kind = "json"
  /\ Prop(cacheFile.text.value, "models").t = "array"
  /\ NotLoadable(cacheFile.text)
  /\ last.result = <<>>
  /\ ~last.threw

\* the call reads the cache: load(), or fetchModels(false)
ReadsCache(call) ==
  call.op = "load" \/ (call.op = "fetchModels" /\ ~call.forceRefresh)

\* C19: after save(S) has returned true, and with no save, clear or damage
\* of the file since, every load() and every fetchModels(false) made while
\* the age of the file is less than the duration returns S: the same
\* entries, with the same fields, in the same order.
C19_CacheRoundTrip ==
  [][(/\ Called
      /\ ReadsCache(last')
      /\ cacheSaved.known
      /\ Age(cacheFile, now) < cacheDurationMs)
     => /\ ~last'.threw
        /\ last'.result = cacheSaved.models
        /\ cacheFile' = cacheFile]_vars

\* two entries, one with every field and one with the id only, were loaded
\* an hour after they were saved
C19_Witness ==
  /\ last.op = "load"
  /\ cacheSaved.known
  /\ Age(cacheFile, now) > 0
  /\ Age(cacheFile, now) < cacheDurationMs
  /\ Len(last.result) = 2
  /\ last.result = cacheSaved.models
  /\ last.result[1].id = Str("openai:gpt-4")
  /\ last.result[1].owned_by = Str("OpenAI")
  /\ last.result[2].id = Str("claude-3")
  /\ last.result[2].created = Undefined

\* the count field and the number of entries of a cache file written by save
CountField(file) == Prop(JSONParse(file.text), "count")
EntriesIn(file) == Prop(JSONParse(file.text), "models").a

\* C20: save(models) never throws and returns false exactly when mkdir or
\* writeFile failed, leaving the file as it was; when it returns true the
\* directory of the cache file exists, and in every file a save has written
\* the count field is the number of entries stored in it, which is the
\* length of the sequence given.
C20_SaveWritesCount ==
  [][/\ (Called /\ last'.op = "save")
          => /\ ~last'.threw
             /\ last'.answer = Bool(last'.io = "ok")
             /\ last'.answer = Bool(FALSE) => cacheFile' = cacheFile
             /\ last'.answer = Bool(TRUE)
                  => /\ cacheDir'
                     /\ cacheFile'.exists
                     /\ Len(EntriesIn(cacheFile')) = Len(last'.result)
     /\ cacheSaved'.known
          => /\ cacheFile'.exists
             /\ ~JSONParseThrows(cacheFile'.text)
             /\ CountField(cacheFile') = Num(Len(EntriesIn(cacheFile')))]_vars

\* two entries were saved into a directory that did not exist
C20_Witness ==
  /\ last.op = "save"
  /\ ~last.dirBefore
  /\ last.answer = Bool(TRUE)
  /\ Len(last.result) = 2
  /\ cacheDir
  /\ cacheFile.exists
  /\ CountField(cacheFile) = Num(2)

\* C21: clear() never throws; it returns true exactly when the cache file
\* existed and unlink removed it, and then the file is gone; otherwise it
\* returns false and the file is as it was.  While the file is gone isValid()
\* is false and load() returns the empty sequence, and only a save (or a
\* write from outside the program) brings a file back.
C21_ClearRemovesFile ==
  [][/\ (Called /\ last'.op = "clearCache")
          => /\ ~last'.threw
             /\ last'.answer = Bool(cacheFile.exists /\ last'.io = "ok")
             /\ last'.answer = Bool(TRUE) => ~cacheFile'.exists
             /\ last'.answer = Bool(FALSE) => cacheFile' = cacheFile
     /\ (Called /\ last'.op = "isValid" /\ ~cacheFile.exists)
          => last'.answer = Bool(FALSE)
     /\ (Called /\ last'.op = "load" /\ ~cacheFile.exists)
          => last'.result = <<>>
     /\ (~cacheFile.exists /\ cacheFile'.exists)
          => last'.op \in {"save", "fetchModels", "damage"}]_vars

\* a file that a save had written was removed
C21_Witness ==
  /\ last.op = "clearCache"
  /\ last.answer = Bool(TRUE)
  /\ ~last.threw
  /\ ~cacheFile.exists
  /\ ~cacheSaved.known
  /\ cacheDir

\* C22: getInfo() never throws; when stat fails on the cache file (the file
\* is missing or cannot be accessed) it reports exists false with the text
\* of the error, and otherwise exists true with an isValid that is what
\* isValid() gives in that state: the age is less than the duration.
C22_InfoNeverThrows ==
  [][(Called /\ last'.op = "getInfo")
     => /\ ~last'.threw
        /\ cacheFile' = cacheFile
        /\ IF ~cacheFile.exists \/ last'.io = "stat failed"
             THEN /\ Prop(last'.answer, "exists") = Bool(FALSE)
                  /\ Prop(last'.answer, "error").t = "string"
                  /\ Prop(last'.answer, "isValid") = Undefined
             ELSE /\ Prop(last'.answer, "exists") = Bool(TRUE)
                  /\ Prop(last'.answer, "error") = Undefined
                  /\ Prop(last'.answer, "isValid")
                       = Bool(Age(cacheFile, now) < cacheDurationMs)]_vars

\* an expired file was reported as existing and not valid
C22_Witness ==
  /\ last.op = "getInfo"
  /\ last.io = "ok"
  /\ cacheFile.exists
  /\ Age(cacheFile, now) >= cacheDurationMs
  /\ Prop(last.answer, "exists") = Bool(TRUE)
  /\ Prop(last.answer, "isValid") = Bool(FALSE)

\* ========================================================================
\* Properties of ModelInfoImpl.getProvider and getModelName
\* ========================================================================
\* what comes before and after the first ':' of an id that has one
BeforeColon(id) == SubSeq(id, 1, IndexOf(id, ":") - 1)
AfterColon(id) == SubSeq(id, IndexOf(id, ":") + 1, Len(id))

\* C23 as stated: for an id with no ':' the provider is 'unknown' and the
\* name is the whole id; for an id with a ':' the provider is everything
\* before the first ':' and the name is everything after it, further ':'
\* included.
C23_ParserCutsAtFirstColon ==
  LET id == last.info.id
  IN last.op = "info"
       => /\ "provider" \in last.info.asked
               => last.info.provider =
                    IF Includes(id, ":") THEN BeforeColon(id) ELSE Unknown
          /\ "name" \in last.info.asked
               => last.info.name =
                    IF Includes(id, ":") THEN AfterColon(id) ELSE id

\* the number of ':' in an id
Colons(id) == Cardinality({i \in 1..Len(id) : id[i] = ":"})

\* C24 as stated: for every id with a ':' whose name part has no further
\* ':' (a part before or after the ':' may be empty),
\* provider + ":" + name is the id.
C24_ProviderColonNameIsId ==
  (/\ last.op = "info"
   /\ last.info.asked = {"provider", "name"}
   /\ Colons(last.info.id) = 1)
    => last.info.provider \o <<":">> \o last.info.name = last.info.id

\* ========================================================================
\* Properties of the constructor of entries
\* ========================================================================
\* C25 as stated: data with a missing id, an id that is no string or the
\* empty string as id is rejected with an error and no entry is constructed;
\* data with a non-empty string as id and no object gets object 'model'.
C25_EntryNeedsNonEmptyId ==
  last.op = "new"
    => LET data == last.info.data
           id == Prop(data, "id")
       IN /\ (id.t # "string" \/ id = Str(""))
               => last.threw /\ last.info.entries = {}
          /\ (/\ id.t = "string"
              /\ id # Str("")
              /\ Prop(data, "object") = Undefined)
               => /\ ~last.threw
                  /\ \E entry \in last.info.entries : entry.object = Str("model")

\* ========================================================================
\* Properties of getModels and searchModels
\* ========================================================================
\* how often an entry occurs in a sequence
Occurrences(models, model) == Cardinality({i \in 1..Len(models) : models[i] = model})
IsPermutation(s, t) ==
  /\ Len(s) = Len(t)
  /\ \A i \in 1..Len(s) : Occurrences(s, s[i]) = Occurrences(t, s[i])

SortedLocale(models) ==
  \A i \in 1..(Len(models) - 1) : localeCompare(models[i].id, models[i + 1].id) <= 0

Listed == last.op = "list" /\ last.info.called = "getModels" /\ last.info.given

Searched == last.op = "list" /\ last.info.called = "searchModels"

\* the result holds the entries that match, as often as the input holds
\* them, and no others
ResultIsExactly(matches(_)) ==
  \A id \in ListedIds :
    Occurrences(last.result, [id |-> id]) =
      IF matches([id |-> id]) THEN Occurrences(last.info.before, [id |-> id]) ELSE 0

\* the lower-cased query is a substring of the lower-cased id, provider or name
MatchesAField(model) ==
  \E field \in {model.id, getProvider(model.id), getModelName(model.id)} :
    IncludesText(toLowerCase(field), toLowerCase(last.info.query))

\* the lower-cased query is a substring of the lower-cased id, provider and
\* name put one after the other with a space between them
MatchesJoinedFields(model) ==
  IncludesText(toLowerCase(model.id) \o <<" ">> \o toLowerCase(getProvider(model.id))
                 \o <<" ">> \o toLowerCase(getModelName(model.id)),
               toLowerCase(last.info.query))

\* C27 as stated: searchModels returns exactly the entries for which the
\* lower-cased query is a substring of the lower-cased id, provider or name,
\* sorted as getModels sorts; with an empty query it returns
\* getModels(entries); the input is not mutated.
C27_SearchMatchesAField ==
  Searched
    => /\ ResultIsExactly(MatchesAField)
       /\ SortedLocale(last.result)
       /\ last.info.query = <<>> => last.result = getModels(last.info.before)
       /\ last.info.models = last.info.before

\* C27, amended: searchModels returns exactly the entries for which the
\* lower-cased query is a substring of the lower-cased id, provider and name
\* joined by single spaces, sorted as getModels sorts; with an empty query it
\* returns getModels(entries); the input is not mutated.
C27_SearchMatchesJoinedFields ==
  Searched
    => /\ ~last.threw
       /\ ResultIsExactly(MatchesJoinedFields)
       /\ SortedLocale(last.result)
       /\ last.info.query = <<>> => last.result = getModels(last.info.before)
       /\ last.info.models = last.info.before

\* a query with a space found an entry across the joins of its fields, and
\* left another entry out
C27_Witness ==
  /\ Searched
  /\ last.info.query = <<"b", " ", "a">>
  /\ last.info.before = <<[id |-> <<"a">>], [id |-> <<"B", ":", "a">>]>>
  /\ last.result = <<[id |-> <<"B", ":", "a">>]>>

\* ========================================================================
\* Properties of the commands of the CLI
\* ========================================================================
\* C28 as stated: search <query> --refresh, like models --refresh, invokes
\* the fetcher during the command even when the cache is valid.
C28_SearchRefreshFetches ==
  (/\ last.op \in {"models", "search"}
   /\ last.info.refresh
   /\ hasApiKey)
    => last.fetcherCalls = 1

\* ========================================================================
\* Properties of the settings the application uses
\* ========================================================================
\* the number SYNTHETIC_CACHE_DURATION stands for
EnvHours(v) == IF v = Str("12") THEN Num(12) ELSE Undefined

\* C29 as stated: when SYNTHETIC_API_KEY, SYNTHETIC_BASE_URL or
\* SYNTHETIC_CACHE_DURATION is set, the apiKey, baseUrl or cacheDurationHours
\* the application uses is the value from the environment, not the stored one.
C29_EnvironmentOverridesConfig ==
  (cfgLast.op \in {"getModelManager", "showConfig"} /\ cfgLast.outcome = "returned")
    => LET env == cfgLast.arg
           used == cfgLast.result
       IN /\ Prop(env, "SYNTHETIC_API_KEY") # Undefined
               => Prop(used, "apiKey") = Prop(env, "SYNTHETIC_API_KEY")
          /\ (Prop(env, "SYNTHETIC_BASE_URL") # Undefined /\ cfgLast.op = "showConfig")
               => Prop(used, "baseUrl") = Prop(env, "SYNTHETIC_BASE_URL")
          /\ Prop(env, "SYNTHETIC_CACHE_DURATION") # Undefined
               => Prop(used, "cacheDurationHours")
                    = EnvHours(Prop(env, "SYNTHETIC_CACHE_DURATION"))

\* ========================================================================
\* Properties of loading the settings
\* ========================================================================
\* the settings are read from disk by the config getter
LoadsSettings == cfgLast'.op = "config" /\ cfgLast'.loaded

\* the settings of a fresh installation
FreshSettings ==
  Obj([apiKey |-> Str(""),
       baseUrl |-> Str("https://api.synthetic.new"),
       anthropicBaseUrl |-> Str("https://api.synthetic.new/anthropic"),
       modelsApiUrl |-> Str("https://api.synthetic.new/openai/v1/models"),
       cacheDurationHours |-> Num(24),
       selectedModel |-> Str(""),
       firstRunCompleted |-> Bool(FALSE),
       autoUpdateCheck |-> Bool(TRUE),
       lastUpdateCheck |-> Str("")])

\* C30: when no settings file exists, loading returns exactly the defaults
\* of the schema (apiKey "", the fixed URLs, cacheDurationHours 24,
\* selectedModel "", firstRunCompleted false, autoUpdateCheck true,
\* lastUpdateCheck "") and creates no file.
C30_LoadWithoutFileGivesDefaults ==
  [][(LoadsSettings /\ ~configFile.exists)
       => /\ cfgLast'.outcome = "returned"
          /\ cfgLast'.result = FreshSettings
          /\ _config' = FreshSettings
          /\ ~configFile'.exists
          /\ backupFile' = backupFile]_vars

\* the settings were loaded with no settings file on disk
C30_Witness ==
  /\ cfgLast.op = "config"
  /\ cfgLast.loaded
  /\ ~configFile.exists
  /\ ~backupFile.exists
  /\ cfgLast.result = FreshSettings

\* ========================================================================
\* Properties of toJSON
\* ========================================================================
EntryFields == {"id", "object", "created", "owned_by"}

\* C31: for valid data d of an entry, toJSON of the entry constructed from d
\* equals d field by field, a field that d lacks being undefined; the entry
\* constructed from that JSON equals the first entry and has the same
\* provider and name.
C31_ToJSONRoundTrip ==
  last.op = "entry"
    => /\ last.info.json # Undefined
            => \A f \in EntryFields : Prop(last.info.json, f) = Prop(last.info.data, f)
       /\ last.info.rebuilt => ~last.threw /\ last.info.again = {last.info.entry}
       /\ last.info.names # <<>> => last.info.names[1] = last.info.names[2]

\* an entry with a ':' in its id and no created field went the whole way
C31_Witness ==
  /\ last.op = "entry"
  /\ last.info.data = Obj([id |-> Str(<<"a", ":", "b">>), object |-> Str("list"),
                           owned_by |-> Str("OpenAI")])
  /\ Prop(last.info.json, "created") = Undefined
  /\ Prop(last.info.json, "object") = Str("list")
  /\ last.info.rebuilt
  /\ last.info.names = << <<<<"a">>, <<"b">>>>, <<<<"a">>, <<"b">>>> >>

\* ========================================================================
\* Properties of the selector
\* ========================================================================
\* a key was handled in this step
KeyHandled == last.op = "selector" /\ ~last.info.exited /\ last' # last

\* C32 as stated: a digit d with d at most the number of filtered models
\* selects the d-th filtered model and the selector exits; 'q' or Escape
\* cancels, onCancel being called exactly once, and the selector exits.
C32_DigitSelectsQuitCancels ==
  [][KeyHandled
       => LET key == last'.info.key
              shown == last.info.filteredModels
          IN /\ (key.input \in Digits /\ parseInt(key.input) <= Len(shown))
                  => /\ last'.info.selected = <<shown[parseInt(key.input)]>>
                     /\ last'.info.exited
             /\ (key.input = "q" \/ key.name = "escape")
                  => /\ last'.info.cancels = 1
                     /\ last'.info.selected = <<>>
                     /\ last'.info.exited]_vars

\* C39 as stated: after any sequence of keys, the filter effect having run,
\* whenever the filtered list is not empty the selected index is at least 0
\* and less than the number of filtered models, so that Enter selects a
\* model.
C39_SelectedIndexInRange ==
  (last.op = "selector" /\ ~last.info.exited /\ last.info.filteredModels # <<>>)
    => /\ 0 <= last.info.selectedIndex
       /\ last.info.selectedIndex < Len(last.info.filteredModels)
       /\ useInput(last.info, [input |-> "", name |-> "return"]).exited

\* ========================================================================
\* Properties of the saved model and the first-run flag
\* ========================================================================
\* the Settings have a selected model and the first run behind them
SelectedAfterFirstRun(settings) ==
  /\ Prop(settings, "selectedModel") # Str("")
  /\ Prop(settings, "firstRunCompleted") = Bool(TRUE)

\* C34: hasSavedModel() is true exactly when selectedModel is not empty and
\* firstRunCompleted is true; getSavedModel() is selectedModel then and ""
\* otherwise; after setSavedModel(m) succeeds with a non-empty m the instance,
\* and a new instance on the same path, have selectedModel m and
\* firstRunCompleted true, so hasSavedModel() is true, getSavedModel() is m
\* and isFirstRun() is false.
C34_SavedModelNeedsFirstRun ==
  [][/\ cfgLast'.op = "hasSavedModel"
          => cfgLast'.result = Bool(SelectedAfterFirstRun(Settings(_config, configFile)))
     /\ cfgLast'.op = "getSavedModel"
          => cfgLast'.result =
               IF SelectedAfterFirstRun(Settings(_config, configFile))
                 THEN Prop(Settings(_config, configFile), "selectedModel")
                 ELSE Str("")
     /\ cfgLast'.op = "isFirstRun"
          => cfgLast'.result =
               Bool(Prop(Settings(_config, configFile), "firstRunCompleted") # Bool(TRUE))
     /\ (/\ cfgLast'.op = "setSavedModel"
         /\ cfgLast'.result = Bool(TRUE)
         /\ cfgLast'.arg # Str(""))
          => \A settings \in {_config', loadConfig(configFile')} :
               /\ Prop(settings, "selectedModel") = cfgLast'.arg
               /\ Prop(settings, "firstRunCompleted") = Bool(TRUE)
               /\ hasSavedModel(settings)
               /\ getSavedModel(settings) = cfgLast'.arg
               /\ ~isFirstRun(settings)]_vars

\* a new instance answered hasSavedModel() with true from the file that
\* setSavedModel wrote
C34_Witness ==
  /\ cfgLast.op = "hasSavedModel"
  /\ cfgLast.loaded
  /\ cfgLast.result = Bool(TRUE)
  /\ Prop(_config, "selectedModel") = Str("hf:llama")

\* ========================================================================
\* Properties of SyntheticClaudeApp.run
\* ========================================================================
\* a run starts in this step
RunStarts == last.op = "run" /\ last.info.pc = "idle" /\ last' # last

\* the stored Settings as a new process finds them
StoredSettings == loadConfig(configFile)

\* C33: a run that starts with firstRunCompleted false performs setup and
\* launches nothing, then and in every step of setup; Claude Code is launched
\* only by a run that started with firstRunCompleted true, and with the model
\* given with --model or else the saved, non-empty selectedModel.
C33_FirstRunGatesLaunch ==
  [][/\ RunStarts
          => LET first == Prop(StoredSettings, "firstRunCompleted") # Bool(TRUE)
                 option == last'.info.option
                 saved == Prop(StoredSettings, "selectedModel")
             IN /\ last'.info.firstRun = first
                /\ first => last'.info.pc = "setup" /\ last'.info.launched = <<>>
                /\ last'.info.launched # <<>>
                     => /\ ~first
                        /\ last'.info.pc = "idle"
                        /\ \/ option.t = "string" /\ option # Str("")
                              /\ last'.info.launched = <<option>>
                           \/ option \in {Undefined, Str("")} /\ saved # Str("")
                              /\ last'.info.launched = <<saved>>
     /\ (last.op = "run" /\ last.info.pc # "idle")
          => /\ last.info.firstRun
             /\ last'.info.firstRun
             /\ last'.info.launched = <<>>]_vars

\* a run without --model has launched Claude Code with the model that an
\* earlier first run saved
C33_Witness ==
  /\ last.op = "run"
  /\ last.info.pc = "idle"
  /\ last.info.option = Undefined
  /\ ~last.info.firstRun
  /\ last.info.launched = <<Str("claude-3")>>
  /\ Prop(_config, "selectedModel") = Str("claude-3")

\* ========================================================================
\* Properties of ModelCache.getInfo
\* ========================================================================
\* C35 as stated: on a cache file that exists and can be parsed, getInfo
\* reports the number of entries stored in the file and the file's
\* last-modified time, whether the cache is valid or expired.
C35_InfoCountsStoredEntries ==
  [][(/\ Called
      /\ last'.op = "getInfo"
      /\ last'.io = "ok"
      /\ cacheFile.exists
      /\ ~NotLoadable(cacheFile.text))
       => /\ Prop(last'.answer, "exists") = Bool(TRUE)
          /\ Prop(last'.answer, "modelCount") = Num(Len(EntriesIn(cacheFile)))
          /\ Prop(last'.answer, "modifiedTime") = Str(ToString(cacheFile.mtime))]_vars

\* the primary steps of a save: creating the settings directory and writing
\* the settings file
PrimaryWriteFailed(steps) == steps.mkdir = "failed" \/ steps.write = "failed"

\* C36: a save or update whose primary write fails throws a ConfigSaveError
\* and leaves the in-memory Settings unchanged: the config accessor returns
\* after the call the same Settings as before it, and the settings file is as
\* it was.
C36_FailedWriteKeepsSettings ==
  [][(cfgLast'.op \in SaveOps /\ PrimaryWriteFailed(cfgLast'.steps))
     => /\ cfgLast'.outcome = "ConfigSaveError"
        /\ Settings(_config', configFile') = Settings(_config, configFile)
        /\ _config # Null => _config' = _config
        /\ configFile' = configFile]_vars

\* an update naming a new API key whose write failed, on an instance that
\* goes on answering with the Settings it had
C36_Witness ==
  /\ cfgLast.op = "updateConfig"
  /\ cfgLast.arg = Obj([apiKey |-> Str("k1"), cacheDurationHours |-> Num(12)])
  /\ cfgLast.steps.write = "failed"
  /\ cfgLast.outcome = "ConfigSaveError"
  /\ _config # Null
  /\ _config.o.apiKey # Str("k1")

\* C38 as stated: after every successful save in which chmod did not fail,
\* every file the store has written that holds Settings content, the settings
\* file and its backup, is restricted to owner read/write permissions.
C38_WrittenFilesOwnerOnly ==
  [][(/\ cfgLast'.op \in SaveOps
      /\ cfgLast'.result = Bool(TRUE)
      /\ cfgLast'.steps.chmod = "ok")
     => /\ configFile'.mode = "0600"
        /\ backupFile'.exists => backupFile'.mode = "0600"]_vars

\* ------------------------------------------------------------------------
\* Two ConfigManager instances A and B on the same directory.  _config is
\* the field of the instance the calls are made on, last.info.other the
\* field of the other one.  last.info.phase follows the updates of the
\* two: 1 when A holds settings in memory, 2 when B has then written an
\* apiKey that A's settings do not hold, 3 when A has then written an
\* update that does not name apiKey.
\* ------------------------------------------------------------------------
TwoInstances == [active |-> "A", other |-> Null, phase |-> 0]

\* the updates of the two instances: one of apiKey, one of selectedModel
TwoUpdates ==
  { Obj([apiKey |-> Str("k1")]),
    Obj([selectedModel |-> Str("openai:gpt-4")]) }

\* the next calls are made on the other instance
OtherInstance ==
  /\ _config' = last.info.other
  /\ last' = [last EXCEPT !.info.other = _config,
                          !.info.active = IF @ = "A" THEN "B" ELSE "A"]
  /\ UNCHANGED <<configFile, backupFile, lastSaved, cfgLast>>
  /\ keepCache

\* the phase after a call of the active instance with the partial update
\* updates (Undefined for a read)
phaseAfter(updates) ==
  LET info == last.info
      succeeded == cfgLast'.outcome = "returned" /\ cfgLast'.result = Bool(TRUE)
      named == "apiKey" \in Keys(updates)
  IN IF info.active = "A"
       THEN IF info.phase = 2 /\ ~succeeded THEN 2
            ELSE IF info.phase = 2 /\ ~named THEN 3
            ELSE 1
     ELSE IF /\ info.phase \in {1, 3}
             /\ succeeded
             /\ named
             /\ info.other # Null
             /\ updates.o.apiKey # info.other.o.apiKey THEN 2
     ELSE IF info.phase = 3 THEN 1
     ELSE info.phase

\* get config() on the active instance
InstanceGetConfig ==
  /\ readConfig("config", LAMBDA config : config)
  /\ last' = [last EXCEPT !.info.phase = phaseAfter(Undefined)]
  /\ keepCache

\* updateConfig(updates) on the active instance
InstanceUpdateConfig ==
  /\ \E updates \in TwoUpdates :
       /\ updateConfigBody("updateConfig", updates, updates)
       /\ last' = [last EXCEPT !.info.phase = phaseAfter(updates)]
  /\ keepCache

InitTwo ==
  /\ cacheFile = NoFile
  /\ cacheDir = TRUE
  /\ cacheSaved = NothingSaved
  /\ now = 0
  /\ apiKey = Str("")
  /\ cacheDurationMs = ModelCacheDurationMs(ModelManagerCacheHours(0))
  /\ corruptHit = FALSE
  /\ last = [NoCall EXCEPT !.op = "instances", !.info = TwoInstances]
  /\ recording = TRUE
  /\ ConfigInit

NextTwo ==
  \/ OtherInstance
  \/ InstanceGetConfig
  \/ InstanceUpdateConfig

SpecTwo == InitTwo /\ [][NextTwo]_vars

\* C37: an update merges over the settings the instance holds in memory, not
\* over the file: when A held settings, B then successfully updated apiKey
\* to a value A's settings do not hold, and A then successfully updates
\* selectedModel, the file held B's apiKey before A's update and holds after
\* it the apiKey of A's settings and the selectedModel A named: B's write
\* is lost.
C37_UpdateMergesOverSnapshot ==
  [][(last.info.phase = 2 /\ last'.info.phase = 3)
     => /\ last.info.active = "A"
        /\ _config # Null
        /\ Prop(StoredSettings, "apiKey") = Prop(last.info.other, "apiKey")
        /\ Prop(loadConfig(configFile'), "apiKey") = Prop(_config, "apiKey")
        /\ Prop(loadConfig(configFile'), "apiKey") # Prop(last.info.other, "apiKey")
        /\ Prop(loadConfig(configFile'), "selectedModel") = Prop(cfgLast'.arg, "selectedModel")]_vars

\* A loaded the defaults, B wrote the key k1, A wrote the selected model:
\* the file holds A's model and no key, while B still holds k1
C37_Witness ==
  /\ last.op = "instances"
  /\ last.info.phase = 3
  /\ last.info.active = "A"
  /\ cfgLast.op = "updateConfig"
  /\ cfgLast.arg = Obj([selectedModel |-> Str("openai:gpt-4")])
  /\ cfgLast.result = Bool(TRUE)
  /\ Prop(last.info.other, "apiKey") = Str("k1")
  /\ Prop(StoredSettings, "apiKey") = Str("")
  /\ Prop(StoredSettings, "selectedModel") = Str("openai:gpt-4")

====
